---- MODULE Spec2Model ----
(***************************************************************************)
(* A model of flowmetrics: the provider clients' pagination loops, the     *)
(* fixed-interval rate limiters, the lyrics scraper's request path, the    *)
(* cross-provider entity matcher, the Spotify token cache and the MongoDB  *)
(* persistence layer.  Every component keeps its own variables and its own *)
(* next-state relation; a specification runs one component and leaves the  *)
(* others in their constructed state.                                      *)
(***************************************************************************)
EXTENDS Integers, Sequences, FiniteSets, TLC

VARIABLES
    \* --- paginated fetch (clients/spotify.py, clients/musicbrainz.py)
    pg_fn,          \* the paginated method that is running
    pg_total,       \* number of records the provider holds for the artist
    pg_offset,      \* local variable offset
    pg_all,         \* local variable all_albums / all_release_groups
    pg_requests,    \* page requests issued by the running call
    pg_pc,          \* "idle", "loop", "returned" or "raised"
    \* --- rate limiter of one client (MusicBrainzClient or LyricsScraper)
    clock,              \* time.time(), in ticks
    rl_class,           \* the class of the rate-limited client
    rate_limit,         \* self.rate_limit, in ticks
    last_request_time,  \* self.last_request_time: <<>> is None, <<t>> is t
    rl_gap,             \* <<>>, or <<difference of the last two recorded stamps>>
    rl_slept,           \* <<>>, or <<duration the last limiter call slept>>
    rl_calls,           \* limiter calls so far, counted up to 2
    \* --- LyricsScraper.get_song_lyrics (clients/lyrics_scraper.py)
    ls_pc,          \* "idle", "search", "get", "returned" or "raised"
    ls_src,         \* index into sources: 1 AZLyrics, 2 MetroLyrics, 3 Lyrics.com
    ls_errors,      \* local variable errors
    ls_result,      \* <<>>, or <<source of the ScrapedLyrics returned>>
    ls_trace,       \* limiter waits and outbound requests of the running call
    ls_log,         \* per source consulted by the running call, how it ended
    \* --- entity matcher (utils/matching.py)
    m_fn,           \* the matcher that ran last
    m_target,       \* spotify_artist.name / spotify_album.name / track.name
    m_cands,        \* names or titles of the search results, in result order
    m_threshold,    \* similarity_threshold, as <<numerator, denominator>>
    m_result,       \* <<>> for None, or <<index of the result matched>>
    m_track_id,     \* find_track_matches: id of the track handled last
    m_matches,      \* find_track_matches: local variable matches
    m_left,         \* find_track_matches: tracks still to handle
    \* --- SpotifyClient token cache (clients/spotify.py)
    au_token,       \* self.token: <<>> is None, else <<[access_token, expires_at]>>
    au_at,          \* datetime.now(UTC) as _ensure_auth of the last call read it
    au_before,      \* self.token when the last call was entered
    au_exchanges,   \* token exchanges (POST /api/token) the last call performed
    au_sent,        \* whether the last call sent its data request
    au_outcome,     \* "none" before any call, then "returned" or "SpotifyError"
    au_failed,      \* the token exchange of the call before the last one failed
    \* --- MongoDB persistence (db/mongodb.py)
    db_docs,        \* the collection, in insertion order
    db_ops,         \* write operations started so far
    db_upserts,     \* per spotify_id, the upsert_artist calls completed
    db_first_op,    \* per spotify_id, "operation" reported by its first upsert
    db_last,        \* the write operation completed last
    w_pc,           \* per concurrent writer: "idle" or "found"
    w_data,         \* per concurrent writer: artist_data of its upsert_artist
    w_existing,     \* per concurrent writer: local variable existing
    \* --- LyricsScraper.get_artist_lyrics (clients/lyrics_scraper.py)
    al_pc,          \* "idle", "fetch", "returned" or "raised"
    al_max_songs,   \* argument max_songs
    al_found,       \* songs search_artist_songs discovered, in discovery order
    al_song_urls,   \* local variable song_urls after the slice
    al_attempted,   \* songs whose lyrics page was requested, in order
    al_failed,      \* songs whose fetch raised
    al_lyrics_list, \* local variable lyrics_list
    \* --- one operation of a provider client (clients/*.py)
    cc_pc,          \* "idle", "auth", "send", "map", "returned" or "raised"
    cc_op,          \* the client method running: [provider, name]
    cc_sent,        \* outbound requests sent by the running call, in order
    cc_failure,     \* <<>>, or <<the failure that occurred inside the call>>
    cc_exc,         \* <<>>, or <<the exception that reaches the caller>>
    cc_record,      \* whether the call returned a record
    \* --- artist-collection batch (scripts/collect_artists.py)
    ba_pc,          \* "idle", "stats", "albums", "musicbrainz", "upsert", "done", "store failed"
    ba_new_artists, \* the artists of the batch, numbered in loop order
    ba_i,           \* loop index of main
    ba_sections,    \* sections of artist_data filled for the current artist
    ba_errors,      \* <<artist, section>> pairs whose fetch raised a provider error
    ba_upserted,    \* artists handed to upsert_artist, in order
    \* --- MusixmatchClient.get_all_artist_tracks (clients/musixmatch.py)
    mx_pc,          \* "idle", "loop", "returned" or "raised"
    mx_limit,       \* argument limit
    mx_total,       \* tracks the provider holds for the artist
    mx_page,        \* local variable page
    mx_page_size,   \* local variable page_size
    mx_all_tracks,  \* local variable all_tracks
    \* --- release timelines (clients/spotify.py, clients/musicbrainz.py)
    tl_client,      \* "none" before the call, then "Spotify" or "MusicBrainz"
    tl_releases,    \* the releases fetched, in the provider's order
    tl_timeline,    \* <<>>, or <<the ordered mapping returned>>
    \* --- cleanup_artist (cleanup_artists.py)
    cu_artist_data, \* <<>> before the call, then <<the stored document>>
    cu_cleaned,     \* <<>>, or <<cleaned_data as returned>>
    cu_runs,        \* how many times the document went through cleanup_artist
    \* --- name_similarity on a pair of names (utils/matching.py)
    sim_name1,      \* argument name1
    sim_name2,      \* argument name2
    sim_score,      \* <<>>, or <<name_similarity(name1, name2)>>
    sim_swapped,    \* <<>>, or <<name_similarity(name2, name1)>>
    st_client,      \* "none", or the client whose statistics were computed
    st_records,     \* the release records fetched for the artist
    st_top_tracks,  \* the popularity of each top track, <<>> for a missing one
    st_counts,      \* <<>>, or <<the counts by release type>>
    st_avg,         \* <<>>, or <<average_track_popularity as <<sum, count>> >>
    va_lyrics,      \* <<>> before the call, then <<the raw lyrics text>>
    va_metrics,     \* <<>>, or <<the metrics of analyze_lyrics>>
    \* --- the pagination loops against a provider that answers as it likes
    pl_fn,          \* the paginated method that is running, or "none"
    pl_pc,          \* "idle", "loop" or "returned"
    pl_limit,       \* the argument limit of get_all_artist_tracks, else 0
    pl_offset,      \* local variable offset, or page for get_all_artist_tracks
    pl_count,       \* len(all_albums), len(all_tracks), len(all_release_groups)
    pl_last,        \* <<>>, or <<the page received last>>
    pl_requests,    \* page requests issued by the running call
    \* --- the MusicBrainz section of get_artist_full_data
    mi_pc,          \* "idle", "returned", or "raised" (an exception left the function)
    mi_results,     \* mb_results.artists: the score of each result, <<>> for None
    mi_requested,   \* the ids get_artist_info was requested for
    mi_info         \* artist_data["musicbrainz_info"]: <<>> for None, or <<[id |-> ...]>>

pageVars == <<pg_fn, pg_total, pg_offset, pg_all, pg_requests, pg_pc>>

rateVars == <<clock, rl_class, rate_limit, last_request_time, rl_gap, rl_slept, rl_calls>>

scraperVars == <<ls_pc, ls_src, ls_errors, ls_result, ls_trace, ls_log>>

matchVars == <<m_fn, m_target, m_cands, m_threshold, m_result, m_track_id, m_matches, m_left>>

authVars == <<au_token, au_at, au_before, au_exchanges, au_sent, au_outcome, au_failed>>

dbVars == <<db_docs, db_ops, db_upserts, db_first_op, db_last, w_pc, w_data, w_existing>>

artistLyricsVars == <<al_pc, al_max_songs, al_found, al_song_urls, al_attempted, al_failed, al_lyrics_list>>

callVars == <<cc_pc, cc_op, cc_sent, cc_failure, cc_exc, cc_record>>

batchVars == <<ba_pc, ba_new_artists, ba_i, ba_sections, ba_errors, ba_upserted>>

musixmatchVars == <<mx_pc, mx_limit, mx_total, mx_page, mx_page_size, mx_all_tracks>>

timelineVars == <<tl_client, tl_releases, tl_timeline>>

cleanupVars == <<cu_artist_data, cu_cleaned, cu_runs>>

similarityVars == <<sim_name1, sim_name2, sim_score, sim_swapped>>

statsVars == <<st_client, st_records, st_top_tracks, st_counts, st_avg>>

vocabularyVars == <<va_lyrics, va_metrics>>

pagingVars == <<pl_fn, pl_pc, pl_limit, pl_offset, pl_count, pl_last, pl_requests>>

matchInfoVars == <<mi_pc, mi_results, mi_requested, mi_info>>

vars == <<pageVars, rateVars, scraperVars, matchVars, authVars, dbVars, artistLyricsVars, callVars, batchVars, musixmatchVars, timelineVars, cleanupVars, similarityVars, statsVars, vocabularyVars, pagingVars, matchInfoVars>>

(***************************************************************************)
(* Bounds.                                                                 *)
(***************************************************************************)
\* Largest number of records a provider holds: two full MusicBrainz pages
\* and one record more.
MaxTotal == 201

\* Largest configured rate_limit, in ticks.
MaxRate == 2

\* Largest random.uniform(0.1, 1.0) jitter, in ticks (the smallest is 1).
MaxJitter == 1

\* Longest time, in ticks, a limiter call takes beyond its sleep.
MaxDrift == 1

\* A client call is started only while the clock reads at most this.
MaxClock == 6

\* Most results a MusicBrainz search returns.
MaxCands == 2

\* Most tracks handed to find_track_matches.
MaxTracks == 2

\* Longest token lifetime (expires_in) the accounts service grants, in ticks.
MaxExpiresIn == 3

\* Most write operations applied to the collection.
MaxOps == 3

\* Most songs search_artist_songs discovers, and the largest max_songs.
MaxSongs == 3

\* Most new artists one run of the collection batch processes.
MaxArtists == 3

\* Most releases of the artist whose timeline is built.
MaxReleases == 3

\* Most entries of a stored albums, singles or compilations list.
MaxStored == 2

\* Longest name handed to name_similarity.
MaxNameLen == 4

MaxRecords == 2
MaxTopTracks == 2

MaxPieces == 3

MaxPages == 3

MaxResults == 3

(***************************************************************************)
(* Arithmetic helpers.                                                     *)
(***************************************************************************)
Min(a, b) == IF a < b THEN a ELSE b

Max(a, b) == IF a > b THEN a ELSE b

\* ceil(n / d) for n >= 0, d > 0
CeilDiv(n, d) == (n + d - 1) \div d

(***************************************************************************)
(* The providers.  A provider holds the records 1..total in its own order  *)
(* and serves the page [offset, offset + limit) of them.                   *)
(***************************************************************************)
ProviderItems(total) == [i \in 1..total |-> i]

ProviderPage(total, offset, limit) ==
    SubSeq(ProviderItems(total), offset + 1, Min(offset + limit, total))

\* Spotify's paging object: "next" is null on the page that reaches the end.
SpotifyNextIsNone(total, offset, limit) == ~(offset + limit < total)

(***************************************************************************)
(* Page sizes.                                                             *)
(***************************************************************************)
SpotifyLimit == 50

MBTimelineLimit == 100

MBInfoLimit == 100

PagedFns ==
    {"get_all_artist_albums", "get_all_album_tracks", "get_artist_timeline", "get_artist_info"}

\* the limit the method asks for; get_artist_albums and
\* browse_artist_release_groups pass min(limit, max) on to the provider
PageLimit(fn) ==
    CASE fn = "get_all_artist_albums" -> Min(SpotifyLimit, 50)
      [] fn = "get_all_album_tracks"  -> Min(SpotifyLimit, 50)
      [] fn = "get_artist_timeline"   -> Min(MBTimelineLimit, 100)
      [] fn = "get_artist_info"       -> Min(MBInfoLimit, 100)

(***************************************************************************)
(* The loops' exit tests.                                                  *)
(***************************************************************************)
\* a bug: the loop runs on to an empty page whatever "next" says
SpotifyBreakOnEmptyOnly(nextIsNone, items) == Len(items) = 0

\* if response.next is None or len(response.items) == 0: break
SpotifyBreak(nextIsNone, items) == nextIsNone \/ Len(items) = 0

\* a bug: the short-page test written with <=, which stops after any page
MBBreakOffByOne(items, limit) == Len(items) <= limit \/ items = <<>>

\* if len(release_groups.release_groups) < limit or not release_groups.release_groups: break
MBBreak(items, limit) == Len(items) < limit \/ items = <<>>

\* a bug: the offset advanced one record too far
AdvanceOffsetSkip(offset, limit) == offset + limit + 1

\* offset += limit
AdvanceOffset(offset, limit) == offset + limit

(***************************************************************************)
(* Paginated fetch: a call is entered with offset = 0 and an empty result. *)
(***************************************************************************)
PageInit ==
    /\ pg_fn = "none"
    /\ pg_total = 0
    /\ pg_offset = 0
    /\ pg_all = <<>>
    /\ pg_requests = 0
    /\ pg_pc = "idle"

PageCall(fn) ==
    /\ pg_pc \in {"idle", "returned", "raised"}
    /\ \E total \in 0..MaxTotal :
          /\ pg_fn' = fn
          /\ pg_total' = total
          /\ pg_offset' = 0
          /\ pg_all' = <<>>
          /\ pg_requests' = 0
          /\ pg_pc' = "loop"

\* the page request raises SpotifyError / MusicBrainzError: the call ends
PageRaise ==
    /\ pg_pc = "loop"
    /\ pg_pc' = "raised"
    /\ pg_requests' = pg_requests + 1
    /\ UNCHANGED <<pg_fn, pg_total, pg_offset, pg_all>>

\* one iteration of the while loop of SpotifyClient.get_all_artist_albums
get_all_artist_albums ==
    /\ pg_pc = "loop"
    /\ pg_fn = "get_all_artist_albums"
    /\ LET limit == PageLimit(pg_fn)
           items == ProviderPage(pg_total, pg_offset, limit)
           nextIsNone == SpotifyNextIsNone(pg_total, pg_offset, limit)
       IN  /\ pg_requests' = pg_requests + 1
           /\ pg_all' = pg_all \o items
           /\ IF SpotifyBreak(nextIsNone, items)
                 THEN pg_pc' = "returned" /\ pg_offset' = pg_offset
                 ELSE pg_pc' = "loop" /\ pg_offset' = AdvanceOffset(pg_offset, SpotifyLimit)
    /\ UNCHANGED <<pg_fn, pg_total>>

\* one iteration of the while loop of SpotifyClient.get_all_album_tracks;
\* each item of the page adds one track, from get_track or, when that raises
\* SpotifyError, the simplified item itself
get_all_album_tracks ==
    /\ pg_pc = "loop"
    /\ pg_fn = "get_all_album_tracks"
    /\ LET limit == PageLimit(pg_fn)
           items == ProviderPage(pg_total, pg_offset, limit)
           nextIsNone == SpotifyNextIsNone(pg_total, pg_offset, limit)
       IN  /\ pg_requests' = pg_requests + 1
           /\ pg_all' = pg_all \o items
           /\ IF SpotifyBreak(nextIsNone, items)
                 THEN pg_pc' = "returned" /\ pg_offset' = pg_offset
                 ELSE pg_pc' = "loop" /\ pg_offset' = AdvanceOffset(pg_offset, SpotifyLimit)
    /\ UNCHANGED <<pg_fn, pg_total>>

\* one iteration of the while loop of MusicBrainzClient.get_artist_timeline
get_artist_timeline ==
    /\ pg_pc = "loop"
    /\ pg_fn = "get_artist_timeline"
    /\ LET items == ProviderPage(pg_total, pg_offset, PageLimit(pg_fn))
       IN  /\ pg_requests' = pg_requests + 1
           /\ pg_all' = pg_all \o items
           /\ IF MBBreak(items, MBTimelineLimit)
                 THEN pg_pc' = "returned" /\ pg_offset' = pg_offset
                 ELSE pg_pc' = "loop" /\ pg_offset' = AdvanceOffset(pg_offset, MBTimelineLimit)
    /\ UNCHANGED <<pg_fn, pg_total>>

\* one iteration of the while loop of MusicBrainzClient.get_artist_info
get_artist_info ==
    /\ pg_pc = "loop"
    /\ pg_fn = "get_artist_info"
    /\ LET items == ProviderPage(pg_total, pg_offset, PageLimit(pg_fn))
       IN  /\ pg_requests' = pg_requests + 1
           /\ pg_all' = pg_all \o items
           /\ IF MBBreak(items, MBInfoLimit)
                 THEN pg_pc' = "returned" /\ pg_offset' = pg_offset
                 ELSE pg_pc' = "loop" /\ pg_offset' = AdvanceOffset(pg_offset, MBInfoLimit)
    /\ UNCHANGED <<pg_fn, pg_total>>

(***************************************************************************)
(* Rate limiter.  Python's None is the empty tuple, a float t is <<t>>.    *)
(***************************************************************************)
RateLimits == 1..MaxRate

Jitters == 1..MaxJitter

Drifts == 0..MaxDrift

\* MusicBrainzClient.__init__: self.last_request_time = None
MusicBrainzClientInit ==
    /\ rl_class = "MusicBrainzClient"
    /\ rate_limit \in RateLimits
    /\ last_request_time = <<>>

\* LyricsScraper.__init__: self.last_request_time = 0
LyricsScraperInit ==
    /\ rl_class = "LyricsScraper"
    /\ rate_limit \in RateLimits
    /\ last_request_time = <<0>>

RateHistoryInit ==
    /\ clock = 1
    /\ rl_gap = <<>>
    /\ rl_slept = <<>>
    /\ rl_calls = 0

\* a constructed client whose limiter is not exercised
RateIdle ==
    /\ rl_class = "MusicBrainzClient"
    /\ rate_limit = 1
    /\ last_request_time = <<>>
    /\ RateHistoryInit

\* a bug: the sleep one tick short of the remaining interval
MBSleepForShort(rl, elapsed) == rl - elapsed - 1

\* time.sleep(self.rate_limit - elapsed)
MBSleepFor(rl, elapsed) == rl - elapsed

\* time.sleep(self.rate_limit - elapsed + random.uniform(0.1, 1.0))
LSSleepFor(rl, elapsed, jitter) == rl - elapsed + jitter

\* MusicBrainzClient._respect_rate_limit entered at time now; drift is the
\* time the call takes beyond its sleep.  The result is the sleep and the
\* value of time.time() stored in last_request_time.
MBRespect(now, last, rl, drift) ==
    LET sleep == IF last # <<>>
                    THEN LET elapsed == now - last[1]
                         IN  IF elapsed < rl THEN MBSleepFor(rl, elapsed) ELSE 0
                    ELSE 0
    IN  [slept |-> sleep, stamp |-> now + sleep + drift]

\* a bug: the initial stamp 0 counts as the time of an earlier request
LSRespectFromZero(now, last, rl, jitter, drift) ==
    LET current_time == now
        sleep == IF last[1] >= 0
                    THEN LET elapsed == current_time - last[1]
                         IN  IF elapsed < rl THEN LSSleepFor(rl, elapsed, jitter) ELSE 0
                    ELSE 0
    IN  [slept |-> sleep, stamp |-> now + sleep + drift]

\* LyricsScraper._respect_rate_limit
LSRespect(now, last, rl, jitter, drift) ==
    LET current_time == now
        sleep == IF last[1] > 0
                    THEN LET elapsed == current_time - last[1]
                         IN  IF elapsed < rl THEN LSSleepFor(rl, elapsed, jitter) ELSE 0
                    ELSE 0
    IN  [slept |-> sleep, stamp |-> now + sleep + drift]

\* whether a stamp has been recorded by an earlier limiter call
Stamped == rl_calls > 0

\* the effect of one limiter call with outcome r on the limiter's state
RateRecord(r) ==
    /\ clock' = r.stamp
    /\ last_request_time' = <<r.stamp>>
    /\ rl_gap' = IF Stamped THEN <<r.stamp - last_request_time[1]>> ELSE <<>>
    /\ rl_slept' = <<r.slept>>
    /\ rl_calls' = Min(rl_calls + 1, 2)
    /\ UNCHANGED <<rl_class, rate_limit>>

\* time passes between calls
Tick ==
    /\ clock < MaxClock
    /\ clock' = clock + 1
    /\ UNCHANGED <<rl_class, rate_limit, last_request_time, rl_gap, rl_slept, rl_calls>>

MusicBrainzClient_respect_rate_limit ==
    /\ rl_class = "MusicBrainzClient"
    /\ clock <= MaxClock
    /\ \E drift \in Drifts :
          RateRecord(MBRespect(clock, last_request_time, rate_limit, drift))

LyricsScraper_respect_rate_limit ==
    /\ rl_class = "LyricsScraper"
    /\ clock <= MaxClock
    /\ \E jitter \in Jitters, drift \in Drifts :
          RateRecord(LSRespect(clock, last_request_time, rate_limit, jitter, drift))

(***************************************************************************)
(* LyricsScraper.get_song_lyrics.  ls_trace lists, in order, the limiter   *)
(* waits and the outbound HTTP requests of the running call.               *)
(***************************************************************************)
\* sources = [(search_azlyrics, get_lyrics_from_azlyrics), ...]
Sources == <<"AZLyrics", "MetroLyrics", "Lyrics.com">>

\* the outbound calls: requests.get in _make_request, requests.head in
\* search_metrolyrics
HttpRequests == {"requests.get", "requests.head"}

\* what a get_lyrics_from_* method can raise after its request was sent
ScrapeFailures == {"Request failed", "Could not find lyrics container"}

ScraperIdle ==
    /\ ls_pc = "idle"
    /\ ls_src = 1
    /\ ls_errors = <<>>
    /\ ls_result = <<>>
    /\ ls_trace = <<>>
    /\ ls_log = <<>>

\* LyricsScraper._make_request: the limiter wait, then requests.get
LSMakeRequest ==
    /\ \E jitter \in Jitters, drift \in Drifts :
          RateRecord(LSRespect(clock, last_request_time, rate_limit, jitter, drift))
    /\ ls_trace' = ls_trace \o <<"respect_rate_limit", "requests.get">>

\* the for loop of get_song_lyrics moves on to the next source, or falls
\* out of the loop and raises the aggregate LyricsScraperError
NextSource ==
    IF ls_src < Len(Sources)
       THEN ls_pc' = "search" /\ ls_src' = ls_src + 1
       ELSE ls_pc' = "raised" /\ ls_src' = ls_src

\* how the visit of the current source ended: "no url", "fetched" or "raised"
Visit(outcome, reason) == [source |-> Sources[ls_src], outcome |-> outcome, reason |-> reason]

\* a bug: a search without result leaves a reason in errors
AfterSearchReports(found) ==
    /\ IF found
          THEN ls_pc' = "get" /\ ls_src' = ls_src /\ UNCHANGED <<ls_log, ls_errors>>
          ELSE /\ NextSource
               /\ ls_log' = Append(ls_log, Visit("no url", ""))
               /\ ls_errors' = Append(ls_errors, "no url")
    /\ UNCHANGED ls_result

\* url = search_method(artist, title); if url: return get_method(url)
AfterSearch(found) ==
    /\ IF found
          THEN ls_pc' = "get" /\ ls_src' = ls_src /\ UNCHANGED ls_log
          ELSE NextSource /\ ls_log' = Append(ls_log, Visit("no url", ""))
    /\ UNCHANGED <<ls_errors, ls_result>>

\* a bug: the loop goes on after a successful fetch
AfterGetKeepsGoing(ok, reason) ==
    IF ok
       THEN /\ ls_result' = <<Sources[ls_src]>>
            /\ ls_log' = Append(ls_log, Visit("fetched", ""))
            /\ NextSource
            /\ UNCHANGED ls_errors
       ELSE /\ ls_errors' = Append(ls_errors, reason)
            /\ ls_log' = Append(ls_log, Visit("raised", reason))
            /\ NextSource
            /\ UNCHANGED ls_result

\* return get_method(url), or except Exception as e: errors.append(str(e))
AfterGet(ok, reason) ==
    IF ok
       THEN /\ ls_pc' = "returned"
            /\ ls_result' = <<Sources[ls_src]>>
            /\ ls_log' = Append(ls_log, Visit("fetched", ""))
            /\ UNCHANGED <<ls_src, ls_errors>>
       ELSE /\ ls_errors' = Append(ls_errors, reason)
            /\ ls_log' = Append(ls_log, Visit("raised", reason))
            /\ NextSource
            /\ UNCHANGED ls_result

get_song_lyrics ==
    /\ ls_pc \in {"idle", "returned", "raised"}
    /\ clock <= MaxClock
    /\ ls_pc' = "search"
    /\ ls_src' = 1
    /\ ls_errors' = <<>>
    /\ ls_result' = <<>>
    /\ ls_trace' = <<>>
    /\ ls_log' = <<>>
    /\ UNCHANGED rateVars

\* a search that raises returns None like one that finds nothing
search_azlyrics ==
    /\ ls_pc = "search" /\ ls_src = 1
    /\ LSMakeRequest
    /\ \E found \in BOOLEAN : AfterSearch(found)

get_lyrics_from_azlyrics ==
    /\ ls_pc = "get" /\ ls_src = 1
    /\ LSMakeRequest
    /\ \E ok \in BOOLEAN, reason \in ScrapeFailures : AfterGet(ok, reason)

\* requests.head(url, ...) is sent directly, not through _make_request
search_metrolyrics ==
    /\ ls_pc = "search" /\ ls_src = 2
    /\ ls_trace' = Append(ls_trace, "requests.head")
    /\ UNCHANGED rateVars
    /\ \E found \in BOOLEAN : AfterSearch(found)

get_lyrics_from_metrolyrics ==
    /\ ls_pc = "get" /\ ls_src = 2
    /\ LSMakeRequest
    /\ \E ok \in BOOLEAN, reason \in ScrapeFailures : AfterGet(ok, reason)

search_lyrics_com ==
    /\ ls_pc = "search" /\ ls_src = 3
    /\ LSMakeRequest
    /\ \E found \in BOOLEAN : AfterSearch(found)

get_lyrics_from_lyrics_com ==
    /\ ls_pc = "get" /\ ls_src = 3
    /\ LSMakeRequest
    /\ \E ok \in BOOLEAN, reason \in ScrapeFailures : AfterGet(ok, reason)

(***************************************************************************)
(* Entity matcher.  A name is a sequence of one-character strings; a score *)
(* is the fraction <<n, d>> with d > 0, compared as Python compares the    *)
(* floats n / d.                                                           *)
(***************************************************************************)
\* str.lower()
Lower(c) ==
    CASE c = "A" -> "a"
      [] c = "B" -> "b"
      [] OTHER   -> c

\* \s and \w of the regular expressions: a character is whitespace,
\* punctuation or a word character
IsSpaceChar(c) == c = " "

Punctuation == {"!", "(", ")", "-", "'"}

IsWordChar(c) == ~IsSpaceChar(c) /\ c \notin Punctuation

\* re.sub(r"\s+", " ", name): every run of whitespace becomes one space
RECURSIVE CollapseSpaces(_)
CollapseSpaces(s) ==
    IF Len(s) < 2 THEN s
    ELSE IF IsSpaceChar(s[1]) /\ IsSpaceChar(s[2])
            THEN CollapseSpaces(Tail(s))
            ELSE <<s[1]>> \o CollapseSpaces(Tail(s))

\* str.strip()
RECURSIVE Strip(_)
Strip(s) ==
    IF s = <<>> THEN s
    ELSE IF IsSpaceChar(s[1]) THEN Strip(Tail(s))
    ELSE IF IsSpaceChar(s[Len(s)]) THEN Strip(SubSeq(s, 1, Len(s) - 1))
    ELSE s

normalize_name(name) ==
    LET lowered  == [i \in 1..Len(name) |-> Lower(name[i])]
        stripped == SelectSeq(lowered, LAMBDA c : IsWordChar(c) \/ IsSpaceChar(c))
    IN  Strip(CollapseSpaces(stripped))

\* length of the common run of a[i..] and b[j..] inside a[..ahi), b[..bhi)
\* (indices count from 0, as in difflib)
RECURSIVE RunLen(_, _, _, _, _, _)
RunLen(a, b, i, j, ahi, bhi) ==
    IF i < ahi /\ j < bhi /\ a[i + 1] = b[j + 1]
       THEN 1 + RunLen(a, b, i + 1, j + 1, ahi, bhi)
       ELSE 0

\* SequenceMatcher.find_longest_match without junk: the longest matching
\* block of a[alo:ahi] and b[blo:bhi]; of the longest, the one starting
\* earliest in a, and of those the one starting earliest in b
find_longest_match(a, b, alo, ahi, blo, bhi) ==
    LET starts == (alo..(ahi - 1)) \X (blo..(bhi - 1))
        len(p) == RunLen(a, b, p[1], p[2], ahi, bhi)
        best   == IF starts = {} THEN 0
                  ELSE CHOOSE k \in {len(p) : p \in starts} :
                           \A p \in starts : len(p) <= k
    IN  IF best = 0 THEN [i |-> alo, j |-> blo, k |-> 0]
        ELSE LET longest == {p \in starts : len(p) = best}
                 first   == CHOOSE p \in longest :
                                \A q \in longest :
                                    p[1] < q[1] \/ (p[1] = q[1] /\ p[2] <= q[2])
             IN  [i |-> first[1], j |-> first[2], k |-> best]

\* sum of the sizes of SequenceMatcher.get_matching_blocks
RECURSIVE MatchingSize(_, _, _, _, _, _)
MatchingSize(a, b, alo, ahi, blo, bhi) ==
    LET m == find_longest_match(a, b, alo, ahi, blo, bhi)
    IN  IF m.k = 0 THEN 0
        ELSE m.k
             + (IF alo < m.i /\ blo < m.j
                   THEN MatchingSize(a, b, alo, m.i, blo, m.j) ELSE 0)
             + (IF m.i + m.k < ahi /\ m.j + m.k < bhi
                   THEN MatchingSize(a, b, m.i + m.k, ahi, m.j + m.k, bhi) ELSE 0)

\* a bug: two empty sequences have ratio 0
RatioEmptyZero(a, b) ==
    LET length == Len(a) + Len(b)
    IN  IF length = 0 THEN <<0, 1>>
        ELSE <<2 * MatchingSize(a, b, 0, Len(a), 0, Len(b)), length>>

\* SequenceMatcher(None, a, b).ratio(): 2.0 * matches / length, 1.0 when
\* both sequences are empty
Ratio(a, b) ==
    LET length == Len(a) + Len(b)
    IN  IF length = 0 THEN <<1, 1>>
        ELSE <<2 * MatchingSize(a, b, 0, Len(a), 0, Len(b)), length>>

name_similarity(name1, name2) ==
    Ratio(normalize_name(name1), normalize_name(name2))

\* x > y and x >= y on scores
ScoreGt(x, y) == x[1] * y[2] > y[1] * x[2]

ScoreGe(x, y) == x[1] * y[2] >= y[1] * x[2]

\* the loop over the search results: best_match = None, best_score = 0.0,
\* and every result with score > best_score replaces both
RECURSIVE BestOf(_, _, _, _, _)
BestOf(target, cands, i, best_match, best_score) ==
    IF i > Len(cands) THEN [best_match |-> best_match, best_score |-> best_score]
    ELSE LET score == name_similarity(target, cands[i])
         IN  IF ScoreGt(score, best_score)
                THEN BestOf(target, cands, i + 1, <<i>>, score)
                ELSE BestOf(target, cands, i + 1, best_match, best_score)

\* if best_match and best_score >= similarity_threshold: return best_match
AcceptBest(b, threshold) ==
    IF b.best_match # <<>> /\ ScoreGe(b.best_score, threshold)
       THEN b.best_match
       ELSE <<>>

find_musicbrainz_artist(name, artists, threshold) ==
    IF artists = <<>> THEN <<>>
    ELSE AcceptBest(BestOf(name, artists, 1, <<>>, <<0, 1>>), threshold)

find_musicbrainz_release(name, releases, threshold) ==
    IF releases = <<>> THEN <<>>
    ELSE AcceptBest(BestOf(name, releases, 1, <<>>, <<0, 1>>), threshold)

find_musicbrainz_release_group(name, release_groups, threshold) ==
    IF release_groups = <<>> THEN <<>>
    ELSE AcceptBest(BestOf(name, release_groups, 1, <<>>, <<0, 1>>), threshold)

\* the body of the for loop of find_track_matches for one track
find_track_match(name, recordings, threshold) ==
    IF recordings = <<>> THEN <<>>
    ELSE AcceptBest(BestOf(name, recordings, 1, <<>>, <<0, 1>>), threshold)

\* the names the searches and the Spotify records carry
CatalogNames ==
    { <<"a", "b">>, <<"A", "B", "!">>, <<"b", "a">>, <<"a", " ", "b">>, <<"!">> }

\* similarity thresholds 0, 0.5, the default 0.85, and 1
Thresholds == { <<0, 1>>, <<1, 2>>, <<85, 100>>, <<1, 1>> }

TrackIds == {"t1", "t2"}

\* the result lists a search can return
RECURSIVE ResultLists(_)
ResultLists(n) ==
    IF n = 0 THEN {<<>>}
    ELSE LET shorter == ResultLists(n - 1)
         IN  shorter \cup {Append(l, c) : l \in {x \in shorter : Len(x) = n - 1},
                                           c \in CatalogNames}

MatchIdle ==
    /\ m_fn = "none"
    /\ m_target = <<>>
    /\ m_cands = <<>>
    /\ m_threshold = <<85, 100>>
    /\ m_result = <<>>
    /\ m_track_id = "none"
    /\ m_matches = <<>>
    /\ m_left = 0

\* a matcher called on one Spotify record, with the results of its search
MatchCall(fn, name, results, threshold, result) ==
    /\ m_fn = "none"
    /\ m_fn' = fn
    /\ m_target' = name
    /\ m_cands' = results
    /\ m_threshold' = threshold
    /\ m_result' = result
    /\ UNCHANGED <<m_track_id, m_matches, m_left>>

find_musicbrainz_artist_call ==
    \E name \in CatalogNames, results \in ResultLists(MaxCands), th \in Thresholds :
        MatchCall("find_musicbrainz_artist", name, results, th,
                  find_musicbrainz_artist(name, results, th))

find_musicbrainz_release_call ==
    \E name \in CatalogNames, results \in ResultLists(MaxCands), th \in Thresholds :
        MatchCall("find_musicbrainz_release", name, results, th,
                  find_musicbrainz_release(name, results, th))

find_musicbrainz_release_group_call ==
    \E name \in CatalogNames, results \in ResultLists(MaxCands), th \in Thresholds :
        MatchCall("find_musicbrainz_release_group", name, results, th,
                  find_musicbrainz_release_group(name, results, th))

\* find_track_matches is entered: matches = {}
find_track_matches_call ==
    /\ m_fn = "none"
    /\ \E n \in 1..MaxTracks, th \in Thresholds :
          /\ m_left' = n
          /\ m_threshold' = th
    /\ m_fn' = "find_track_matches"
    /\ m_matches' = <<>>
    /\ m_target' = <<>>
    /\ m_cands' = <<>>
    /\ m_result' = <<>>
    /\ m_track_id' = "none"

\* one iteration of the for loop of find_track_matches
find_track_matches ==
    /\ m_left > 0
    /\ \E id \in TrackIds, name \in CatalogNames, results \in ResultLists(MaxCands) :
          LET best == find_track_match(name, results, m_threshold)
          IN  /\ m_track_id' = id
              /\ m_target' = name
              /\ m_cands' = results
              /\ m_result' = best
              /\ m_matches' =
                    IF best = <<>> THEN m_matches
                    ELSE [t \in DOMAIN m_matches \cup {id} |->
                            IF t = id
                               THEN [spotify_track |-> name,
                                     musicbrainz_recording |-> best[1],
                                     similarity_score |-> name_similarity(name, results[best[1]])]
                               ELSE m_matches[t]]
    /\ m_left' = m_left - 1
    /\ UNCHANGED <<m_fn, m_threshold>>

(***************************************************************************)
(* SpotifyClient: the token cache in front of every authenticated request. *)
(* datetime.now(UTC) is the clock; an optional field is <<>> or <<value>>. *)
(***************************************************************************)
ExpiresIns == 0..MaxExpiresIn

\* SpotifyClient.__init__: self.token = None
AuthInit ==
    /\ au_token = <<>>
    /\ au_at = 0
    /\ au_before = <<>>
    /\ au_exchanges = 0
    /\ au_sent = FALSE
    /\ au_outcome = "none"
    /\ au_failed = FALSE

\* a bug: a token that expires at this very instant still counts as valid
EnsureAuthNeededLate(token, now) ==
    \/ token = <<>>
    \/ token[1].expires_at = <<>>
    \/ token[1].expires_at[1] < now

\* the test of _ensure_auth: not self.token or not self.token.expires_at
\* or self.token.expires_at <= datetime.now(UTC)
EnsureAuthNeeded(token, now) ==
    \/ token = <<>>
    \/ token[1].expires_at = <<>>
    \/ token[1].expires_at[1] <= now

\* the test of authenticate: self.token and self.token.expires_at and
\* self.token.expires_at > datetime.now(UTC)
TokenStillValid(token, now) ==
    /\ token # <<>>
    /\ token[1].expires_at # <<>>
    /\ token[1].expires_at[1] > now

\* token_data["expires_at"] = datetime.now(UTC) + timedelta(seconds=expires_in);
\* self.token = SpotifyToken(**token_data)
NewToken(now, expires_in) ==
    <<[access_token |-> now, expires_at |-> <<now + expires_in>>]>>

\* a bug: the cached token is dropped before the new one is requested
TokenAfterFailureDropped(token) == <<>>

\* self.token when the try block of authenticate is left by an exception:
\* the assignment comes after the request and the parsing of its response
TokenAfterFailure(token) == token

\* the effect of one call of an authenticated client method
AuthRecord(now1, exchanges, token, sent, outcome, now) ==
    /\ au_at' = now1
    /\ au_before' = au_token
    /\ au_exchanges' = exchanges
    /\ au_token' = token
    /\ au_sent' = sent
    /\ au_outcome' = outcome
    /\ au_failed' = (au_outcome = "SpotifyError" /\ ~au_sent)
    /\ clock' = now
    /\ UNCHANGED <<rl_class, rate_limit, last_request_time, rl_gap, rl_slept, rl_calls>>

\* response = self.client.get(...); return SpotifyArtist.model_validate(...)
\* or except Exception: raise SpotifyError
DataOutcomes == {"returned", "SpotifyError"}

\* SpotifyClient.get_artist: _ensure_auth(), authenticate() when its test
\* asks for it, then the data request inside try/except.  The other seven
\* request methods open with the same self._ensure_auth() call.  d1 and d2
\* are the times that pass before authenticate reads the clock and before
\* the token response is stamped.
get_artist ==
    /\ clock <= MaxClock
    /\ IF ~EnsureAuthNeeded(au_token, clock)
          THEN \E outcome \in DataOutcomes :
                  AuthRecord(clock, 0, au_token, TRUE, outcome, clock)
          ELSE \E d1 \in Drifts :
                  IF TokenStillValid(au_token, clock + d1)
                     THEN \E outcome \in DataOutcomes :
                             AuthRecord(clock, 0, au_token, TRUE, outcome, clock + d1)
                     ELSE \/ AuthRecord(clock, 1, TokenAfterFailure(au_token), FALSE, "SpotifyError",
                                        clock + d1)
                          \/ \E d2 \in Drifts, expires_in \in ExpiresIns,
                                outcome \in DataOutcomes :
                                AuthRecord(clock, 1, NewToken(clock + d1 + d2, expires_in),
                                           TRUE, outcome, clock + d1 + d2)

(***************************************************************************)
(* MongoDB persistence.  A document is a function from field names to      *)
(* values; the collection is the sequence of its documents in insertion    *)
(* order; the ObjectId of a document is its insertion number.  No index is *)
(* created on the collection.                                              *)
(***************************************************************************)
SpotifyIds == {"s1", "s2"}

ArtistNames == {"n1", "n2"}

AlbumCounts == {"c1"}

\* artist documents as the scripts build them: spotify_id and name always,
\* album_counts only when the statistics could be fetched
Payloads ==
    [{"spotify_id", "name"} -> SpotifyIds \cup ArtistNames \cup AlbumCounts]
        \cup [{"spotify_id", "name", "album_counts"} -> SpotifyIds \cup ArtistNames \cup AlbumCounts]

ArtistData ==
    {d \in Payloads :
        /\ d["spotify_id"] \in SpotifyIds
        /\ d["name"] \in ArtistNames
        /\ ("album_counts" \in DOMAIN d => d["album_counts"] \in AlbumCounts)}

Writers == {1, 2}

NoOp == [op |-> "none"]

DbInit ==
    /\ db_docs = <<>>
    /\ db_ops = 0
    /\ db_upserts = [sid \in SpotifyIds |-> 0]
    /\ db_first_op = [sid \in SpotifyIds |-> "none"]
    /\ db_last = NoOp
    /\ w_pc = [w \in Writers |-> "idle"]
    /\ w_data = [w \in Writers |-> <<>>]
    /\ w_existing = [w \in Writers |-> <<>>]

\* positions of the documents matching {"spotify_id": sid}
Matching(docs, sid) == {i \in 1..Len(docs) : docs[i]["spotify_id"] = sid}

FirstMatching(docs, sid) ==
    CHOOSE i \in Matching(docs, sid) : \A j \in Matching(docs, sid) : i <= j

\* a bug: the lookup never finds the document
FindOneNothing(docs, sid) == <<>>

\* collection.find_one({"spotify_id": sid}): None, or the first match
FindOne(docs, sid) ==
    IF Matching(docs, sid) = {} THEN <<>> ELSE <<docs[FirstMatching(docs, sid)]>>

\* a bug: the update replaces the document by the new fields
SetFieldsReplace(doc, fields) ==
    [f \in DOMAIN fields \cup {"_id"} |-> IF f \in DOMAIN fields THEN fields[f] ELSE doc[f]]

\* {"$set": fields}: the named fields are written, every other field stays
SetFields(doc, fields) ==
    [f \in DOMAIN doc \cup DOMAIN fields |-> IF f \in DOMAIN fields THEN fields[f] ELSE doc[f]]

\* collection.update_one({"spotify_id": sid}, {"$set": fields}): the first
\* match is updated; the collection is unchanged when nothing matches
UpdateOne(docs, sid, fields) ==
    IF Matching(docs, sid) = {} THEN docs
    ELSE [docs EXCEPT ![FirstMatching(docs, sid)] = SetFields(@, fields)]

\* result.modified_count
ModifiedCount(docs, sid, fields) == IF UpdateOne(docs, sid, fields) = docs THEN 0 ELSE 1

\* collection.insert_one(doc): the document is stored under a fresh ObjectId
InsertOne(docs, doc) ==
    Append(docs, [f \in DOMAIN doc \cup {"_id"} |-> IF f = "_id" THEN Len(docs) + 1 ELSE doc[f]])

\* the branch of upsert_artist taken once find_one has returned existing
UpsertWrite(docs, data, existing) ==
    IF existing # <<>>
       THEN [docs      |-> UpdateOne(docs, data["spotify_id"], data),
             operation |-> "update"]
       ELSE [docs      |-> InsertOne(docs, data),
             operation |-> "insert"]

\* bookkeeping of a completed upsert_artist call
UpsertDone(data, existing, operation) ==
    LET sid == data["spotify_id"]
    IN  /\ db_upserts' = [db_upserts EXCEPT ![sid] = @ + 1]
        /\ db_first_op' = IF db_upserts[sid] = 0
                             THEN [db_first_op EXCEPT ![sid] = operation]
                             ELSE db_first_op
        /\ db_last' = [op |-> "upsert_artist", data |-> data,
                       existing |-> existing, operation |-> operation]

insert_artist ==
    /\ db_ops < MaxOps
    /\ \E data \in ArtistData :
          /\ db_docs' = InsertOne(db_docs, data)
          /\ db_last' = [op |-> "insert_artist", data |-> data]
    /\ db_ops' = db_ops + 1
    /\ UNCHANGED <<db_upserts, db_first_op, w_pc, w_data, w_existing>>

update_artist ==
    /\ db_ops < MaxOps
    /\ \E sid \in SpotifyIds, data \in ArtistData :
          /\ db_docs' = UpdateOne(db_docs, sid, data)
          /\ db_last' = [op |-> "update_artist", data |-> data, spotify_id |-> sid,
                         modified_count |-> ModifiedCount(db_docs, sid, data)]
    /\ db_ops' = db_ops + 1
    /\ UNCHANGED <<db_upserts, db_first_op, w_pc, w_data, w_existing>>

\* upsert_artist run by the single-threaded scripts: no other writer acts
\* between its find_one and its update_one / insert_one
upsert_artist ==
    /\ db_ops < MaxOps
    /\ \E data \in ArtistData :
          LET existing == FindOne(db_docs, data["spotify_id"])
              written  == UpsertWrite(db_docs, data, existing)
          IN  /\ db_docs' = written.docs
              /\ UpsertDone(data, existing, written.operation)
    /\ db_ops' = db_ops + 1
    /\ UNCHANGED <<w_pc, w_data, w_existing>>

\* upsert_artist of one of several writers, its first store call:
\* existing = collection.find_one(...)
upsert_artist_find_one(w) ==
    /\ w_pc[w] = "idle"
    /\ db_ops < MaxOps
    /\ \E data \in ArtistData :
          /\ w_data' = [w_data EXCEPT ![w] = data]
          /\ w_existing' = [w_existing EXCEPT ![w] = FindOne(db_docs, data["spotify_id"])]
    /\ w_pc' = [w_pc EXCEPT ![w] = "found"]
    /\ db_ops' = db_ops + 1
    /\ UNCHANGED <<db_docs, db_upserts, db_first_op, db_last>>

\* its second store call: update_one or insert_one, then the return
upsert_artist_write(w) ==
    /\ w_pc[w] = "found"
    /\ LET written == UpsertWrite(db_docs, w_data[w], w_existing[w])
       IN  /\ db_docs' = written.docs
           /\ UpsertDone(w_data[w], w_existing[w], written.operation)
    /\ w_pc' = [w_pc EXCEPT ![w] = "idle"]
    /\ UNCHANGED <<db_ops, w_data, w_existing>>

(***************************************************************************)
(* LyricsScraper.get_artist_lyrics.  The songs discovered are numbered in  *)
(* discovery order.                                                        *)
(***************************************************************************)
\* max_songs is an int the caller chooses (examples/scraper.py passes the
\* --limit option unchecked)
MaxSongsArgs == (0 - 1)..MaxSongs

ArtistLyricsIdle ==
    /\ al_pc = "idle"
    /\ al_max_songs = 0
    /\ al_found = <<>>
    /\ al_song_urls = <<>>
    /\ al_attempted = <<>>
    /\ al_failed = {}
    /\ al_lyrics_list = <<>>

\* seq[:n] of Python: the first n elements for n >= 0, all but the last -n
\* for n < 0
SliceTo(seq, n) ==
    IF n >= 0 THEN SubSeq(seq, 1, Min(n, Len(seq)))
              ELSE SubSeq(seq, 1, Max(Len(seq) + n, 0))

\* entry of get_artist_lyrics up to the loop: search_artist_songs raises,
\* finds nothing, or gives the songs that are then cut to song_urls[:max_songs]
get_artist_lyrics ==
    /\ al_pc \in {"idle", "returned", "raised"}
    /\ \E max_songs \in MaxSongsArgs, n \in 0..MaxSongs, search_ok \in BOOLEAN :
          /\ al_max_songs' = max_songs
          /\ al_found' = IF search_ok THEN [i \in 1..n |-> i] ELSE <<>>
          /\ al_song_urls' = SliceTo(al_found', max_songs)
          /\ al_pc' = IF search_ok /\ n > 0 THEN "fetch" ELSE "raised"
    /\ al_attempted' = <<>>
    /\ al_failed' = {}
    /\ al_lyrics_list' = <<>>

\* one iteration of the loop over song_urls: get_lyrics_from_azlyrics
\* returns the lyrics or raises, and the exception is printed
get_artist_lyrics_fetch ==
    /\ al_pc = "fetch"
    /\ Len(al_attempted) < Len(al_song_urls)
    /\ LET song == al_song_urls[Len(al_attempted) + 1]
       IN  /\ al_attempted' = Append(al_attempted, song)
           /\ \/ al_lyrics_list' = Append(al_lyrics_list, song) /\ UNCHANGED al_failed
              \/ al_failed' = al_failed \cup {song} /\ UNCHANGED al_lyrics_list
    /\ UNCHANGED <<al_pc, al_max_songs, al_found, al_song_urls>>

\* return lyrics_list
get_artist_lyrics_return ==
    /\ al_pc = "fetch"
    /\ Len(al_attempted) = Len(al_song_urls)
    /\ al_pc' = "returned"
    /\ UNCHANGED <<al_max_songs, al_found, al_song_urls, al_attempted, al_failed, al_lyrics_list>>

(***************************************************************************)
(* One operation of a provider client: the token check (Spotify), the      *)
(* outbound request, the mapping of the response to a typed record, and    *)
(* the except clauses an exception passes on its way to the caller.  The   *)
(* message of an exception is the sequence of the parts that its text      *)
(* joins with ": ".                                                        *)
(***************************************************************************)
Providers == {"Spotify", "MusicBrainz", "Musixmatch"}

\* the error type of each client
ProviderError(provider) ==
    CASE provider = "Spotify"     -> "SpotifyError"
      [] provider = "MusicBrainz" -> "MusicBrainzError"
      [] provider = "Musixmatch"  -> "MusixmatchError"

\* Exception(message) as requests, json and pydantic raise it
Raised(type, text) == [type |-> type, message |-> <<text>>, status_code |-> <<>>]

\* requests.request fails, or raise_for_status() rejects a 4xx / 5xx answer
RequestFailures ==
    {Raised("ConnectionError", "connection refused"),
     Raised("Timeout", "read timed out"),
     Raised("HTTPError", "401 Client Error"),
     Raised("HTTPError", "500 Server Error"),
     Raised("JSONDecodeError", "expecting value")}

\* model_validate or a subscript on the decoded body fails
MappingFailures ==
    {Raised("ValidationError", "field required"),
     Raised("KeyError", "items")}

\* status codes Musixmatch reports in the header of its message
MusixmatchStatusCodes == {401, 404}

\* raise MusixmatchError(f"API error: {error_message}", status_code=status_code)
ApiError(status_code) ==
    [type |-> "MusixmatchError", message |-> <<"API error", "Unknown error">>,
     status_code |-> <<status_code>>]

\* except Exception as e: raise XError(f"{prefix}: {str(e)}") from e
Wrap(type, prefix, e) ==
    [type |-> type, message |-> <<prefix>> \o e.message, status_code |-> <<>>]

\* a bug: the client's own errors are wrapped again like any other
WrapUnlessOwnAlways(type, prefix, e) == Wrap(type, prefix, e)

\* except Exception as e: if isinstance(e, XError): raise; else wrap
WrapUnlessOwn(type, prefix, e) ==
    IF e.type = type THEN e ELSE Wrap(type, prefix, e)

\* the except clause of one try block of a client
Handle(provider, prefix, e) ==
    IF provider = "Musixmatch"
       THEN WrapUnlessOwn(ProviderError(provider), prefix, e)
       ELSE Wrap(ProviderError(provider), prefix, e)

\* an exception passes the except clauses from the innermost outwards
RECURSIVE Propagate(_, _, _)

Propagate(provider, prefixes, e) ==
    IF prefixes = <<>> THEN e
    ELSE Propagate(provider, Tail(prefixes), Handle(provider, Head(prefixes), e))

\* the client methods, each with the prefixes of the except clauses around
\* its request (innermost first) and around its mapping
ClientOps ==
    {[provider |-> "Spotify", name |-> "get_artist",
      request |-> <<"Failed to get artist">>, mapping |-> <<"Failed to get artist">>],
     [provider |-> "Spotify", name |-> "search_artists",
      request |-> <<"Artist search failed">>, mapping |-> <<"Artist search failed">>],
     [provider |-> "MusicBrainz", name |-> "search_artists",
      request |-> <<"API request failed", "Artist search failed">>,
      mapping |-> <<"Artist search failed">>],
     [provider |-> "Spotify", name |-> "get_artist_albums",
      request |-> <<"Failed to get artist albums">>,
      mapping |-> <<"Failed to get artist albums">>],
     [provider |-> "MusicBrainz", name |-> "browse_artist_release_groups",
      request |-> <<"API request failed", "Failed to browse artist release groups">>,
      mapping |-> <<"Failed to browse artist release groups">>],
     [provider |-> "Musixmatch", name |-> "get_artist_tracks",
      request |-> <<"Request failed", "Failed to get artist tracks">>,
      mapping |-> <<"Failed to get artist tracks">>],
     [provider |-> "MusicBrainz", name |-> "get_cover_art_front",
      request |-> <<"Failed to get cover art", "Failed to get front cover">>,
      mapping |-> <<"Failed to get cover art", "Failed to get front cover">>],
     [provider |-> "Musixmatch", name |-> "search_artist",
      request |-> <<"Request failed", "Artist search failed">>,
      mapping |-> <<"Artist search failed">>],
     [provider |-> "Musixmatch", name |-> "get_track_lyrics",
      request |-> <<"Request failed", "Failed to get track lyrics">>,
      mapping |-> <<"Failed to get track lyrics">>]}

CallIdle ==
    /\ cc_pc = "idle"
    /\ cc_op = [provider |-> "none", name |-> "none", request |-> <<>>, mapping |-> <<>>]
    /\ cc_sent = <<>>
    /\ cc_failure = <<>>
    /\ cc_exc = <<>>
    /\ cc_record = FALSE

\* a bug: a request rejected by Spotify makes the client fetch a new token
\* and send the request again
AfterFailureRefresh(provider, e) ==
    IF provider = "Spotify" /\ e.type = "HTTPError" THEN "auth" ELSE "raised"

\* where a call goes once one of its requests or its mapping has failed: the
\* except clauses raise, nothing is sent again
AfterFailure(provider, e) == "raised"

\* the failure e occurred inside the try blocks with the given prefixes
CallFails(e, prefixes) ==
    /\ cc_failure' = <<e>>
    /\ cc_exc' = <<Propagate(cc_op.provider, prefixes, e)>>
    /\ cc_pc' = AfterFailure(cc_op.provider, e)
    /\ UNCHANGED <<cc_op, cc_record>>

\* a client method is entered
client_call ==
    /\ cc_pc \in {"idle", "returned", "raised"}
    /\ \E op \in ClientOps :
          /\ cc_op' = op
          /\ cc_pc' = IF op.provider = "Spotify" THEN "auth" ELSE "send"
    /\ cc_sent' = <<>>
    /\ cc_failure' = <<>>
    /\ cc_exc' = <<>>
    /\ cc_record' = FALSE

\* self._ensure_auth(): nothing to do, or authenticate() posts to the
\* accounts service; its SpotifyError is raised outside the method's try
client_ensure_auth ==
    /\ cc_pc = "auth"
    /\ \/ /\ cc_pc' = "send"
          /\ UNCHANGED <<cc_op, cc_sent, cc_failure, cc_exc, cc_record>>
       \/ /\ cc_sent' = Append(cc_sent, "POST /api/token")
          /\ \/ /\ cc_pc' = "send"
                /\ UNCHANGED <<cc_op, cc_failure, cc_exc, cc_record>>
             \/ \E e \in RequestFailures \cup MappingFailures :
                   CallFails(e, <<"Authentication failed">>)

\* self.client.get(...) and response.json()
client_send ==
    /\ cc_pc = "send"
    /\ cc_sent' = Append(cc_sent, "GET " \o cc_op.name)
    /\ \/ /\ cc_pc' = "map"
          /\ UNCHANGED <<cc_op, cc_failure, cc_exc, cc_record>>
       \/ \E e \in RequestFailures : CallFails(e, cc_op.request)
       \/ /\ cc_op.provider = "Musixmatch"
          /\ \E status_code \in MusixmatchStatusCodes :
                CallFails(ApiError(status_code), cc_op.request)

\* the decoded body is mapped to the typed record and returned
client_map ==
    /\ cc_pc = "map"
    /\ \/ /\ cc_pc' = "returned"
          /\ cc_record' = TRUE
          /\ UNCHANGED <<cc_op, cc_failure, cc_exc>>
       \/ \E e \in MappingFailures : CallFails(e, cc_op.mapping)
    /\ UNCHANGED cc_sent

(***************************************************************************)
(* The artist-collection batch: main loops over the new artists,           *)
(* get_artist_full_data fetches three sections for each, each inside its   *)
(* own try block, and the result is upserted.                              *)
(***************************************************************************)
BatchIdle ==
    /\ ba_pc = "idle"
    /\ ba_new_artists = <<>>
    /\ ba_i = 0
    /\ ba_sections = {}
    /\ ba_errors = {}
    /\ ba_upserted = <<>>

\* a bug: a provider error ends the run
OnProviderErrorAbort(next) == "aborted"

\* except SpotifyError / except MusicBrainzError: a warning is printed and
\* get_artist_full_data goes on with its next section
OnProviderError(next) == next

\* one try block of get_artist_full_data: the section is fetched and added
\* to artist_data, or the client raises its provider error
FetchSection(section, next) ==
    /\ ba_pc = section
    /\ \/ /\ ba_sections' = ba_sections \cup {section}
          /\ ba_pc' = next
          /\ UNCHANGED ba_errors
       \/ /\ ba_errors' = ba_errors \cup {<<ba_i, section>>}
          /\ ba_pc' = OnProviderError(next)
          /\ UNCHANGED ba_sections
    /\ UNCHANGED <<ba_new_artists, ba_i, ba_upserted>>

\* main up to the loop: the new artists are selected
collect_artists_main ==
    /\ ba_pc \in {"idle", "done", "store failed"}
    /\ \E n \in 1..MaxArtists : ba_new_artists' = [i \in 1..n |-> i]
    /\ ba_pc' = "stats"
    /\ ba_i' = 1
    /\ ba_sections' = {}
    /\ ba_errors' = {}
    /\ ba_upserted' = <<>>

\* spotify_client.get_artist_stats
get_artist_full_data_stats == FetchSection("stats", "albums")

\* spotify_client.get_all_artist_albums for albums, singles, compilations
\* and appearances
get_artist_full_data_albums == FetchSection("albums", "musicbrainz")

\* mb_client.search_artists and mb_client.get_artist_info
get_artist_full_data_musicbrainz == FetchSection("musicbrainz", "upsert")

\* mongo_client.upsert_artist(artist_data), then the next artist; an
\* exception of the store leaves the loop through the except clause of main
collect_artists_upsert ==
    /\ ba_pc = "upsert"
    /\ \/ /\ ba_upserted' = Append(ba_upserted, ba_new_artists[ba_i])
          /\ IF ba_i < Len(ba_new_artists)
                THEN ba_pc' = "stats" /\ ba_i' = ba_i + 1
                ELSE ba_pc' = "done" /\ ba_i' = ba_i
       \/ /\ ba_pc' = "store failed"
          /\ UNCHANGED <<ba_i, ba_upserted>>
    /\ ba_sections' = {}
    /\ UNCHANGED <<ba_new_artists, ba_errors>>

(***************************************************************************)
(* MusixmatchClient.get_all_artist_tracks.  The provider holds the tracks  *)
(* 1..total of the artist and serves them in pages numbered from 1.        *)
(***************************************************************************)
\* largest page the provider serves
MusixmatchMaxPageSize == 100

\* values of the argument limit: none, one, below, at and above a full page
MusixmatchLimits == {0, 1, 50, 100, 150, 200}

MusixmatchIdle ==
    /\ mx_pc = "idle"
    /\ mx_limit = 0
    /\ mx_total = 0
    /\ mx_page = 1
    /\ mx_page_size = 0
    /\ mx_all_tracks = <<>>

\* get_artist_tracks(artist_id, page, page_size): the track_list of the answer
MusixmatchPage(total, page, page_size) ==
    ProviderPage(total, (page - 1) * Min(page_size, MusixmatchMaxPageSize),
                 Min(page_size, MusixmatchMaxPageSize))

\* entry of get_all_artist_tracks
get_all_artist_tracks_call ==
    /\ mx_pc \in {"idle", "returned", "raised"}
    /\ \E limit \in MusixmatchLimits, total \in 0..MaxTotal :
          /\ mx_limit' = limit
          /\ mx_total' = total
          /\ mx_page_size' = Min(MusixmatchMaxPageSize, limit)
    /\ mx_pc' = "loop"
    /\ mx_page' = 1
    /\ mx_all_tracks' = <<>>

\* the test of the while loop fails: return all_tracks
get_all_artist_tracks_return ==
    /\ mx_pc = "loop"
    /\ ~(Len(mx_all_tracks) < mx_limit)
    /\ mx_pc' = "returned"
    /\ UNCHANGED <<mx_limit, mx_total, mx_page, mx_page_size, mx_all_tracks>>

\* get_artist_tracks raises its MusixmatchError
get_all_artist_tracks_raise ==
    /\ mx_pc = "loop"
    /\ Len(mx_all_tracks) < mx_limit
    /\ mx_pc' = "raised"
    /\ UNCHANGED <<mx_limit, mx_total, mx_page, mx_page_size, mx_all_tracks>>

\* a bug: a short page does not end the loop
get_all_artist_tracks_no_short_break ==
    /\ mx_pc = "loop"
    /\ Len(mx_all_tracks) < mx_limit
    /\ LET tracks == MusixmatchPage(mx_total, mx_page, mx_page_size)
           extended == mx_all_tracks \o tracks
       IN  /\ mx_page' = mx_page + 1
           /\ IF Len(extended) >= mx_limit
                 THEN /\ mx_all_tracks' = SubSeq(extended, 1, mx_limit)
                      /\ mx_pc' = "returned"
                 ELSE /\ mx_all_tracks' = extended
                      /\ UNCHANGED mx_pc
    /\ UNCHANGED <<mx_limit, mx_total, mx_page_size>>

\* one iteration of the while loop
get_all_artist_tracks ==
    /\ mx_pc = "loop"
    /\ Len(mx_all_tracks) < mx_limit
    /\ LET tracks == MusixmatchPage(mx_total, mx_page, mx_page_size)
           extended == mx_all_tracks \o tracks
       IN  IF Len(tracks) < mx_page_size
              THEN /\ mx_all_tracks' = extended
                   /\ mx_pc' = "returned"
                   /\ UNCHANGED mx_page
              ELSE /\ mx_page' = mx_page + 1
                   /\ IF Len(extended) >= mx_limit
                         THEN /\ mx_all_tracks' = SubSeq(extended, 1, mx_limit)
                              /\ mx_pc' = "returned"
                         ELSE /\ mx_all_tracks' = extended
                              /\ UNCHANGED mx_pc
    /\ UNCHANGED <<mx_limit, mx_total, mx_page_size>>

(***************************************************************************)
(* get_artist_timeline of both clients, after the releases were fetched.   *)
(* A release date "YYYY", "YYYY-MM" or "YYYY-MM-DD" is the sequence of its *)
(* numbers; the strings compare as these sequences do, a prefix first.  A  *)
(* dict is the sequence of its items in key order of insertion.            *)
(***************************************************************************)
ReleaseDates == {<<1>>, <<1, 2>>, <<1, 2, 1>>, <<1, 3>>, <<2>>, <<2, 1>>}

\* a < b for two date strings
RECURSIVE DateLess(_, _)

DateLess(a, b) ==
    IF a = <<>> THEN b # <<>>
    ELSE IF b = <<>> THEN FALSE
    ELSE IF Head(a) = Head(b) THEN DateLess(Tail(a), Tail(b))
    ELSE Head(a) < Head(b)

\* release_date.split("-")[0]
YearOf(date) == date[1]

\* sorted(releases, key=lambda rg: rg.first_release_date or ""): ascending,
\* releases of equal date stay in their order
RECURSIVE SortByDate(_)

SortByDate(releases) ==
    IF releases = <<>> THEN <<>>
    ELSE LET x    == releases[Len(releases)]
             rest == SortByDate(SubSeq(releases, 1, Len(releases) - 1))
             keep == {i \in 1..Len(rest) : ~DateLess(x.date, rest[i].date)}
             n    == Cardinality(keep)
         IN  SubSeq(rest, 1, n) \o <<x>> \o SubSeq(rest, n + 1, Len(rest))

\* a bug: the releases of a year stay in the order in which they came
SortNewestFirstNot(releases) == releases

\* sorted(albums, key=lambda a: a.release_date, reverse=True): descending,
\* albums of equal date stay in their order
RECURSIVE SortNewestFirst(_)

SortNewestFirst(releases) ==
    IF releases = <<>> THEN <<>>
    ELSE LET x    == releases[Len(releases)]
             rest == SortNewestFirst(SubSeq(releases, 1, Len(releases) - 1))
             keep == {i \in 1..Len(rest) : ~DateLess(rest[i].date, x.date)}
             n    == Cardinality(keep)
         IN  SubSeq(rest, 1, n) \o <<x>> \o SubSeq(rest, n + 1, Len(rest))

\* the keys of timeline: the years of the dated releases
Years(releases) == {YearOf(releases[i].date) : i \in {j \in 1..Len(releases) : releases[j].date # <<>>}}

\* sorted(timeline.keys())
RECURSIVE SortedYears(_)

SortedYears(years) ==
    IF years = {} THEN <<>>
    ELSE LET y == CHOOSE y \in years : \A z \in years : y <= z
         IN  <<y>> \o SortedYears(years \ {y})

\* timeline[year]: the dated releases of the year, in the order fetched
OfYear(releases, year) ==
    SelectSeq(releases, LAMBDA r : r.date # <<>> /\ YearOf(r.date) = year)

TimelineIdle ==
    /\ tl_client = "none"
    /\ tl_releases = <<>>
    /\ tl_timeline = <<>>

\* the releases of an artist as a provider lists them; MusicBrainz may hold
\* a release group without first_release_date
ReleaseLists(dates) ==
    UNION {[1..n -> dates] : n \in 0..MaxReleases}

WithIds(dateList) == [i \in 1..Len(dateList) |-> [id |-> i, date |-> dateList[i]]]

\* SpotifyClient.get_artist_timeline once get_all_artist_albums returned
SpotifyClient_get_artist_timeline ==
    /\ tl_client = "none"
    /\ \E dateList \in ReleaseLists(ReleaseDates) :
          LET albums == WithIds(dateList)
              years  == SortedYears(Years(albums))
          IN  /\ tl_releases' = albums
              /\ tl_timeline' =
                    <<[i \in 1..Len(years) |->
                         [year |-> years[i],
                          releases |-> SortNewestFirst(OfYear(albums, years[i]))]]>>
    /\ tl_client' = "Spotify"

\* MusicBrainzClient.get_artist_timeline once all release groups are fetched
MusicBrainzClient_get_artist_timeline ==
    /\ tl_client = "none"
    /\ \E dateList \in ReleaseLists(ReleaseDates \cup {<<>>}) :
          LET groups == WithIds(dateList)
              years  == SortedYears(Years(groups))
          IN  /\ tl_releases' = groups
              /\ tl_timeline' =
                    <<[i \in 1..Len(years) |->
                         [year |-> years[i],
                          releases |-> SortByDate(OfYear(groups, years[i]))]]>>
    /\ tl_client' = "MusicBrainz"

(***************************************************************************)
(* cleanup_artist: the release lists of the cleaned document.  An entry    *)
(* without release_date has the date "", the empty sequence.               *)
(***************************************************************************)
ReleaseFields == {"albums", "singles", "compilations"}

StoredDates == {<<>>, <<1>>, <<2>>}

\* the lists a stored document can hold under one of the fields
StoredLists == UNION {[1..n -> StoredDates] : n \in 0..MaxStored}

CleanupIdle ==
    /\ cu_artist_data = <<>>
    /\ cu_cleaned = <<>>
    /\ cu_runs = 0

\* the value cleaned_data gets for a field whose stored list is not empty
CleanedList(field, stored) ==
    IF field \in {"albums", "singles"}
       THEN SortNewestFirst(stored)
       ELSE stored

\* the fields every stored document has
RequiredFields ==
    [_id |-> "id1", spotify_id |-> "s1", name |-> "n1", genres |-> <<"g1">>]

\* a field that may be missing from a document: no entry, or one of values
Optional(field, values) == {<<>>} \cup {field :> v : v \in values}

\* artist_data["musicbrainz_info"] as collect_artists writes it: None (the
\* empty tuple) or <<the dict>>, whose life_span and release_counts may be
\* None and {}
MusicBrainzInfos ==
    {<<>>} \cup
    {<<[id |-> "mb1", disambiguation |-> "None", country |-> "US", type |-> "Group",
        life_span |-> ls, release_counts |-> rc]>> :
         ls \in {"None", "1990"}, rc \in {"{}", "mb_counts"}}

\* values that count as false in an if
Falsy == {"None", "{}", ""}

\* stored documents that differ in their release lists
ListDocuments ==
    {RequiredFields @@ [f \in ReleaseFields |-> WithIds(lists[f])] :
         lists \in [ReleaseFields -> StoredLists]}

\* stored documents that differ in their other fields
InfoDocuments ==
    {RequiredFields @@ spotify @@ mb @@ counts @@ top @@ images @@ updated :
         spotify \in {<<>>, [spotify_popularity |-> 50, spotify_followers |-> 1000,
                             spotify_uri |-> "uri1", external_urls |-> [spotify |-> "url1"]]},
         mb \in Optional("musicbrainz_info", MusicBrainzInfos),
         counts \in Optional("album_counts", {"album_counts"}),
         top \in Optional("top_tracks", {<<"t1">>}),
         images \in Optional("spotify_images", {<<>>, <<"i1", "i2">>}),
         updated \in Optional("last_updated", {"t0"})}

StoredDocuments == ListDocuments \cup InfoDocuments

\* time.strftime("%Y-%m-%d %H:%M:%S", time.gmtime())
CurrentTime == "now"

\* cleaned_data of cleanup_artist(artist_data)
CleanupArtist(artist_data) ==
    LET Has(f) == f \in DOMAIN artist_data
        Get(f, default) == IF Has(f) THEN artist_data[f] ELSE default
        NonEmpty(f) == Has(f) /\ artist_data[f] # <<>>
        head == [_id |-> artist_data["_id"],
                 spotify_id |-> artist_data["spotify_id"],
                 name |-> artist_data["name"],
                 genres |-> artist_data["genres"],
                 spotify_popularity |-> Get("spotify_popularity", 0),
                 spotify_followers |-> Get("spotify_followers", 0),
                 spotify_uri |-> Get("spotify_uri", ""),
                 external_urls |-> Get("external_urls", <<>>)]
        musicbrainz ==
            IF NonEmpty("musicbrainz_info")
                THEN LET mb_info == artist_data["musicbrainz_info"][1]
                     IN  [mbid |-> mb_info.id,
                          disambiguation |-> mb_info.disambiguation,
                          country |-> mb_info.country,
                          type |-> mb_info.type]
                         @@ (IF mb_info.life_span \notin Falsy
                                THEN "life_span" :> mb_info.life_span ELSE <<>>)
                         @@ (IF mb_info.release_counts \notin Falsy
                                THEN "release_counts" :> mb_info.release_counts ELSE <<>>)
                ELSE <<>>
        counts ==
            IF "release_counts" \notin DOMAIN musicbrainz /\ Has("album_counts")
                THEN "release_counts" :> artist_data["album_counts"]
                ELSE <<>>
        present == {f \in ReleaseFields : NonEmpty(f)}
        lists == [f \in present |-> CleanedList(f, artist_data[f])]
        top == IF NonEmpty("top_tracks")
                   THEN "top_tracks" :> artist_data["top_tracks"] ELSE <<>>
        image == IF NonEmpty("spotify_images")
                     THEN "image_uri" :> artist_data["spotify_images"][1] ELSE <<>>
        updated == "last_updated" :> Get("last_updated", CurrentTime)
    IN  head @@ musicbrainz @@ counts @@ lists @@ top @@ image @@ updated

\* cleanup_artist(artist) for a document of the collection
cleanup_artist ==
    /\ cu_artist_data = <<>>
    /\ \E artist_data \in StoredDocuments :
          /\ cu_artist_data' = <<artist_data>>
          /\ cu_cleaned' = <<CleanupArtist(artist_data)>>
    /\ cu_runs' = 1

\* main stores the cleaned document with replace_one; cleanup_artist for
\* the stored document when the script runs again
cleanup_artist_stored ==
    /\ cu_runs = 1
    /\ cu_artist_data' = cu_cleaned
    /\ cu_cleaned' = <<CleanupArtist(cu_cleaned[1])>>
    /\ cu_runs' = 2

(***************************************************************************)
(* name_similarity applied to a pair of names, in both argument orders.    *)
(***************************************************************************)
\* the names over two letters up to the longest length, and the catalog
\* names with their capitals, blanks and punctuation
SimilarityNames ==
    UNION {[1..n -> {"a", "b"}] : n \in 0..MaxNameLen} \cup CatalogNames

SimilarityIdle ==
    /\ sim_name1 = <<>>
    /\ sim_name2 = <<>>
    /\ sim_score = <<>>
    /\ sim_swapped = <<>>

\* a pair of names is given, nothing computed yet
SimilarityInputs ==
    /\ sim_name1 \in SimilarityNames
    /\ sim_name2 \in SimilarityNames
    /\ sim_score = <<>>
    /\ sim_swapped = <<>>

\* name_similarity(name1, name2) and name_similarity(name2, name1)
name_similarity_call ==
    /\ sim_score = <<>>
    /\ sim_score' = <<name_similarity(sim_name1, sim_name2)>>
    /\ sim_swapped' = <<name_similarity(sim_name2, sim_name1)>>
    /\ UNCHANGED <<sim_name1, sim_name2>>

(***************************************************************************)
(* Aggregate statistics: SpotifyClient.get_artist_stats and the tally of   *)
(* MusicBrainzClient.get_artist_info.                                      *)
(***************************************************************************)
\* release-type strings a provider can send; album_type and primary_type are
\* plain str fields of the models
ReleaseTypes == {"album", "single", "Album", "total", "bootleg"}

\* str.lower on the release-type strings
TypeLower(t) ==
    CASE t = "Album" -> "album"
      [] t = "Live" -> "live"
      [] OTHER -> t

SpotifyBuckets == {"album", "single", "compilation", "appears_on", "total"}

MusicBrainzBuckets ==
    {"album", "single", "ep", "compilation", "soundtrack", "live", "remix", "other", "total"}

\* track.popularity: int | None
Popularities == {<<>>, <<0>>, <<50>>, <<100>>}

AlbumTypeLists == UNION {[1..k -> ReleaseTypes] : k \in 0..MaxRecords}

TopTrackLists == UNION {[1..k -> Popularities] : k \in 0..MaxTopTracks}

\* primary_type: str | None, secondary_types: list[str] | None (None and the
\* empty list are both skipped by the tally and written <<>>)
ReleaseGroups ==
    [primary_type : {<<>>} \cup {<<t>> : t \in ReleaseTypes},
     secondary_types : {<<>>, <<"live">>, <<"total">>, <<"Live", "bogus">>}]

ReleaseGroupLists == UNION {[1..k -> ReleaseGroups] : k \in 0..MaxRecords}

\* counts[key] += 1 if key in counts
Bump(counts, key) ==
    IF key \in DOMAIN counts THEN [counts EXCEPT ![key] = @ + 1] ELSE counts

\* for album in albums: if album.album_type in album_counts: ... += 1
RECURSIVE SpotifyTally(_, _)
SpotifyTally(album_counts, albums) ==
    IF albums = <<>>
        THEN album_counts
        ELSE SpotifyTally(Bump(album_counts, Head(albums)), Tail(albums))

\* album_counts of get_artist_stats
SpotifyAlbumCounts(albums) ==
    SpotifyTally([b \in SpotifyBuckets |-> IF b = "total" THEN Len(albums) ELSE 0],
                 albums)

\* for secondary_type in release_group.secondary_types: ...
RECURSIVE SecondaryTally(_, _)
SecondaryTally(album_type_counts, secondary_types) ==
    IF secondary_types = <<>>
        THEN album_type_counts
        ELSE SecondaryTally(Bump(album_type_counts, TypeLower(Head(secondary_types))),
                            Tail(secondary_types))

\* for release_group in all_release_groups: ...
RECURSIVE MusicBrainzTally(_, _)
MusicBrainzTally(album_type_counts, all_release_groups) ==
    IF all_release_groups = <<>>
        THEN album_type_counts
        ELSE LET release_group == Head(all_release_groups)
                 counted == [album_type_counts EXCEPT !["total"] = @ + 1]
                 primary_type == IF release_group.primary_type = <<>>
                                     THEN "other"
                                     ELSE release_group.primary_type[1]
                 typed == IF TypeLower(primary_type) \in DOMAIN counted
                              THEN Bump(counted, TypeLower(primary_type))
                              ELSE Bump(counted, "other")
             IN  MusicBrainzTally(SecondaryTally(typed, release_group.secondary_types),
                                  Tail(all_release_groups))

\* release_group_counts of get_artist_info
MusicBrainzTypeCounts(all_release_groups) ==
    MusicBrainzTally([b \in MusicBrainzBuckets |-> 0], all_release_groups)

\* sum(track.popularity or 0 for track in top_tracks)
RECURSIVE PopularitySum(_)
PopularitySum(top_tracks) ==
    IF top_tracks = <<>>
        THEN 0
        ELSE (IF Head(top_tracks) = <<>> THEN 0 ELSE Head(top_tracks)[1])
                 + PopularitySum(Tail(top_tracks))

\* a bug: the mean is taken over the tracks that have a popularity
AveragePopularityOfPresent(top_tracks) ==
    LET present == {i \in 1..Len(top_tracks) : top_tracks[i] # <<>>}
    IN  IF present # {}
            THEN <<PopularitySum(top_tracks), Cardinality(present)>>
            ELSE <<0, 1>>

\* avg_popularity, the quotient written <<dividend, divisor>>
AveragePopularity(top_tracks) ==
    IF top_tracks # <<>>
        THEN <<PopularitySum(top_tracks), Len(top_tracks)>>
        ELSE <<0, 1>>

StatsIdle ==
    /\ st_client = "none"
    /\ st_records = <<>>
    /\ st_top_tracks = <<>>
    /\ st_counts = <<>>
    /\ st_avg = <<>>

\* SpotifyClient.get_artist_stats, from the fetched albums and top tracks
get_artist_stats ==
    /\ st_client = "none"
    /\ \E albums \in AlbumTypeLists, top_tracks \in TopTrackLists :
          /\ st_client' = "spotify"
          /\ st_records' = albums
          /\ st_top_tracks' = top_tracks
          /\ st_counts' = <<SpotifyAlbumCounts(albums)>>
          /\ st_avg' = <<AveragePopularity(top_tracks)>>

\* MusicBrainzClient.get_artist_info, from the fetched release groups
get_artist_info_counts ==
    /\ st_client = "none"
    /\ \E all_release_groups \in ReleaseGroupLists :
          /\ st_client' = "musicbrainz"
          /\ st_records' = all_release_groups
          /\ st_counts' = <<MusicBrainzTypeCounts(all_release_groups)>>
          /\ UNCHANGED <<st_top_tracks, st_avg>>

(***************************************************************************)
(* LyricsAnalyzer.analyze_lyrics.  A text is a sequence of characters; the *)
(* quotients are written <<dividend, divisor>>.                            *)
(***************************************************************************)
\* the raw lyrics are put together from these pieces
LyricsPieces ==
    {<<"a", "b", "s">>, <<"A", "b">>, <<"a", "s">>, <<"a">>, <<"h", "o", "o", "k">>,
     <<" ">>, <<"!">>, <<"[">>, <<"0", ":", "1", "]">>, <<"]">>, <<"(">>, <<")">>}

RECURSIVE Flatten(_)
Flatten(pieces) ==
    IF pieces = <<>> THEN <<>> ELSE Head(pieces) \o Flatten(Tail(pieces))

LyricsTexts ==
    {Flatten(pieces) : pieces \in UNION {[1..k -> LyricsPieces] : k \in 0..MaxPieces}}

Digits == {"0", "1"}

Letters == {"a", "b", "h", "k", "o", "s", "A", "B"}

\* string.punctuation, as far as the texts use it
StringPunctuation == {"!", "[", "]", "(", ")", ":"}

\* \d+ from position i: the position after the run of digits
RECURSIVE DigitsEnd(_, _)
DigitsEnd(text, i) ==
    IF i <= Len(text) /\ text[i] \in Digits THEN DigitsEnd(text, i + 1) ELSE i

\* \[\d+:\d+\] matched at position i: the position after the match, or 0
TimestampEnd(text, i) ==
    IF text[i] # "["
        THEN 0
        ELSE LET j == DigitsEnd(text, i + 1)
             IN  IF j = i + 1 \/ j > Len(text) \/ text[j] # ":"
                     THEN 0
                     ELSE LET k == DigitsEnd(text, j + 1)
                          IN  IF k = j + 1 \/ k > Len(text) \/ text[k] # "]"
                                  THEN 0
                                  ELSE k + 1

\* re.sub(r"\[\d+:\d+\]", "", text), from position i
RECURSIVE RemoveTimestamps(_, _)
RemoveTimestamps(text, i) ==
    IF i > Len(text)
        THEN <<>>
        ELSE IF TimestampEnd(text, i) # 0
                 THEN RemoveTimestamps(text, TimestampEnd(text, i))
                 ELSE <<text[i]>> \o RemoveTimestamps(text, i + 1)

\* the position of the first close at or after position i, or 0
RECURSIVE FirstClose(_, _, _)
FirstClose(text, close, i) ==
    IF i > Len(text) THEN 0
    ELSE IF text[i] = close THEN i
    ELSE FirstClose(text, close, i + 1)

\* re.sub(r"\[(.*?)\]", "", text) and re.sub(r"\(.*?\)", "", text), from
\* position i: an opening character and everything up to the first closing
\* one after it is removed
RECURSIVE RemoveEnclosed(_, _, _, _)
RemoveEnclosed(text, open, close, i) ==
    IF i > Len(text)
        THEN <<>>
        ELSE IF text[i] = open /\ FirstClose(text, close, i + 1) # 0
                 THEN RemoveEnclosed(text, open, close, FirstClose(text, close, i + 1) + 1)
                 ELSE <<text[i]>> \o RemoveEnclosed(text, open, close, i + 1)

clean_lyrics(lyrics) ==
    LET lowered == [i \in 1..Len(lyrics) |-> Lower(lyrics[i])]
        untimed == RemoveTimestamps(lowered, 1)
        unheaded == RemoveEnclosed(untimed, "[", "]", 1)
        unannotated == RemoveEnclosed(unheaded, "(", ")", 1)
        unpunctuated == SelectSeq(unannotated, LAMBDA c : c \notin StringPunctuation)
    IN  Strip(CollapseSpaces(unpunctuated))

\* word_tokenize on a cleaned text: the words between the blanks
RECURSIVE tokenize_lyrics(_)
tokenize_lyrics(lyrics) ==
    IF lyrics = <<>>
        THEN <<>>
        ELSE LET blank == FirstClose(lyrics, " ", 1)
             IN  IF blank = 0 THEN <<lyrics>>
                 ELSE IF blank = 1 THEN tokenize_lyrics(Tail(lyrics))
                 ELSE <<SubSeq(lyrics, 1, blank - 1)>>
                          \o tokenize_lyrics(SubSeq(lyrics, blank + 1, Len(lyrics)))

\* str.isalpha()
IsAlpha(token) == token # <<>> /\ \A i \in 1..Len(token) : token[i] \in Letters

\* the English stop words, as far as the texts use them
StopWords == {<<"a">>, <<"a", "s">>, <<"s">>}

\* self.section_headers, as far as the texts use them
SectionHeaders == {<<"h", "o", "o", "k">>}

filter_words(words) ==
    SelectSeq(words, LAMBDA word : word \notin StopWords /\ word \notin SectionHeaders
                                       /\ Len(word) > 1)

\* WordNetLemmatizer.lemmatize: a plural is mapped to its singular
Lemmatize(word) ==
    IF Len(word) > 2 /\ word[Len(word)] = "s"
        THEN SubSeq(word, 1, Len(word) - 1)
        ELSE word

lemmatize_words(words) == [i \in 1..Len(words) |-> Lemmatize(words[i])]

RECURSIVE TotalLength(_)
TotalLength(words) ==
    IF words = <<>> THEN 0 ELSE Len(Head(words)) + TotalLength(Tail(words))

\* x / total_words if total_words > 0 else 0
PerWord(x, total_words) == IF total_words > 0 THEN <<x, total_words>> ELSE <<0, 1>>

\* the metrics of analyze_lyrics from all_words and filtered_words;
\* content_words_count is the local of that name
Metrics(all_words, filtered_words) ==
    LET lemmatized_words == lemmatize_words(filtered_words)
        unique_words == {lemmatized_words[i] : i \in 1..Len(lemmatized_words)}
        total_words == Len(all_words)
        unique_word_count == Cardinality(unique_words)
    IN  [total_words |-> total_words,
         unique_word_count |-> unique_word_count,
         content_words_count |-> Len(filtered_words),
         type_token_ratio |-> PerWord(unique_word_count, total_words),
         average_word_length |-> PerWord(TotalLength(all_words), total_words),
         lexical_density |-> PerWord(Len(filtered_words), total_words)]

\* a bug: the stop-word filter is applied to the tokens, not to all_words
AnalyzeFilteringTokens(lyrics) ==
    LET tokens == tokenize_lyrics(clean_lyrics(lyrics))
        all_words == SelectSeq(tokens, IsAlpha)
    IN  Metrics(all_words, filter_words(tokens))

Analyze(lyrics) ==
    LET tokens == tokenize_lyrics(clean_lyrics(lyrics))
        all_words == SelectSeq(tokens, IsAlpha)
    IN  Metrics(all_words, filter_words(all_words))

VocabularyIdle ==
    /\ va_lyrics = <<>>
    /\ va_metrics = <<>>

\* LyricsAnalyzer.analyze_lyrics
analyze_lyrics ==
    /\ va_lyrics = <<>>
    /\ \E lyrics \in LyricsTexts :
          /\ va_lyrics' = <<lyrics>>
          /\ va_metrics' = <<Analyze(lyrics)>>

(***************************************************************************)
(* The pagination loops, page by page, against a provider whose answers    *)
(* are not tied to each other: a page is the number of its items and, for  *)
(* Spotify's paging object, whether "next" is null.                        *)
(***************************************************************************)
SpotifyPagedFns == {"get_all_artist_albums", "get_all_album_tracks"}

MusicBrainzPagedFns == {"get_artist_timeline", "get_artist_info"}

\* the page size the loop of fn asks for
PagingSize(fn, limit) ==
    CASE fn \in SpotifyPagedFns -> SpotifyLimit
      [] fn = "get_artist_timeline" -> MBTimelineLimit
      [] fn = "get_artist_info" -> MBInfoLimit
      [] fn = "get_all_artist_tracks" -> Min(MusixmatchMaxPageSize, limit)
      [] OTHER -> 0

\* the pages a provider can answer a request for size items with: empty,
\* one item, one short of full, full; next is null or a link
PageAnswers(size) ==
    [items : {0, 1, size - 1, size} \cap 0..size, next_none : BOOLEAN]

PagingIdle ==
    /\ pl_fn = "none"
    /\ pl_pc = "idle"
    /\ pl_limit = 0
    /\ pl_offset = 0
    /\ pl_count = 0
    /\ pl_last = <<>>
    /\ pl_requests = 0

\* entry of a paginated method: offset = 0 (page = 1) and an empty result
paged_call ==
    /\ pl_pc = "idle"
    /\ \E fn \in SpotifyPagedFns \cup MusicBrainzPagedFns \cup {"get_all_artist_tracks"} :
          /\ pl_fn' = fn
          /\ pl_limit' \in (IF fn = "get_all_artist_tracks" THEN MusixmatchLimits ELSE {0})
          /\ pl_offset' = IF fn = "get_all_artist_tracks" THEN 1 ELSE 0
    /\ pl_pc' = "loop"
    /\ pl_count' = 0
    /\ pl_last' = <<>>
    /\ pl_requests' = 0

\* one iteration of the while loop of a Spotify method
SpotifyStep(fn) ==
    /\ pl_pc = "loop"
    /\ pl_fn = fn
    /\ pl_requests < MaxPages
    /\ \E response \in PageAnswers(PagingSize(fn, pl_limit)) :
          /\ pl_last' = <<response>>
          /\ pl_count' = pl_count + response.items
          /\ IF SpotifyBreak(response.next_none, ProviderItems(response.items))
                THEN pl_pc' = "returned" /\ pl_offset' = pl_offset
                ELSE pl_pc' = "loop" /\ pl_offset' = AdvanceOffset(pl_offset, SpotifyLimit)
    /\ pl_requests' = pl_requests + 1
    /\ UNCHANGED <<pl_fn, pl_limit>>

\* one iteration of the while loop of a MusicBrainz method
MusicBrainzStep(fn) ==
    /\ pl_pc = "loop"
    /\ pl_fn = fn
    /\ pl_requests < MaxPages
    /\ \E response \in PageAnswers(PagingSize(fn, pl_limit)) :
          /\ pl_last' = <<response>>
          /\ pl_count' = pl_count + response.items
          /\ IF MBBreak(ProviderItems(response.items), PagingSize(fn, pl_limit))
                THEN pl_pc' = "returned" /\ pl_offset' = pl_offset
                ELSE /\ pl_pc' = "loop"
                     /\ pl_offset' = AdvanceOffset(pl_offset, PagingSize(fn, pl_limit))
    /\ pl_requests' = pl_requests + 1
    /\ UNCHANGED <<pl_fn, pl_limit>>

\* SpotifyClient.get_all_artist_albums
get_all_artist_albums_step == SpotifyStep("get_all_artist_albums")

\* SpotifyClient.get_all_album_tracks; get_track for each item of the page,
\* or the simplified item when it raises, adds one track per item
get_all_album_tracks_step == SpotifyStep("get_all_album_tracks")

\* MusicBrainzClient.get_artist_timeline
get_artist_timeline_step == MusicBrainzStep("get_artist_timeline")

\* MusicBrainzClient.get_artist_info
get_artist_info_step == MusicBrainzStep("get_artist_info")

\* MusixmatchClient.get_all_artist_tracks: the test of the while loop fails
get_all_artist_tracks_exit ==
    /\ pl_pc = "loop"
    /\ pl_fn = "get_all_artist_tracks"
    /\ ~(pl_count < pl_limit)
    /\ pl_pc' = "returned"
    /\ UNCHANGED <<pl_fn, pl_limit, pl_offset, pl_count, pl_last, pl_requests>>

\* MusixmatchClient.get_all_artist_tracks: one iteration of the while loop
get_all_artist_tracks_step ==
    /\ pl_pc = "loop"
    /\ pl_fn = "get_all_artist_tracks"
    /\ pl_count < pl_limit
    /\ pl_requests < MaxPages
    /\ LET page_size == PagingSize(pl_fn, pl_limit)
       IN  \E response \in PageAnswers(page_size) :
             /\ pl_last' = <<response>>
             /\ IF response.items < page_size
                   THEN /\ pl_count' = pl_count + response.items
                        /\ pl_pc' = "returned"
                        /\ UNCHANGED pl_offset
                   ELSE /\ pl_offset' = pl_offset + 1
                        /\ IF pl_count + response.items >= pl_limit
                              THEN pl_count' = pl_limit /\ pl_pc' = "returned"
                              ELSE pl_count' = pl_count + response.items /\ UNCHANGED pl_pc
    /\ pl_requests' = pl_requests + 1
    /\ UNCHANGED <<pl_fn, pl_limit>>

(***************************************************************************)
(* get_artist_full_data: the MusicBrainz section.  A search result is      *)
(* known by its position in mb_results.artists, which is also its id.      *)
(***************************************************************************)
\* MusicBrainzArtist.score: int | None
MBScores == {<<>>, <<0>>, <<70>>, <<71>>, <<100>>}

SearchResults == UNION {[1..k -> MBScores] : k \in 0..MaxResults}

\* the for loop over mb_results.artists from result i on: best_match (0 for
\* None) and highest_score at its end, or the TypeError of comparing a score
\* of None with highest_score
RECURSIVE BestMatch(_, _, _, _)
BestMatch(artists, i, best_match, highest_score) ==
    IF i > Len(artists)
        THEN [best_match |-> best_match, highest_score |-> highest_score, raised |-> FALSE]
        ELSE LET score == artists[i]
             IN  IF score = <<>>
                     THEN [best_match |-> best_match, highest_score |-> highest_score,
                           raised |-> TRUE]
                     ELSE IF score[1] > highest_score
                              THEN BestMatch(artists, i + 1, i, score[1])
                              ELSE BestMatch(artists, i + 1, best_match, highest_score)

\* a bug: a score of exactly 70 is taken as high confidence
HighConfidenceFrom70(best_match, highest_score) ==
    best_match # 0 /\ highest_score >= 70

\* if best_match and highest_score > 70
HighConfidence(best_match, highest_score) ==
    best_match # 0 /\ highest_score > 70

MatchInfoIdle ==
    /\ mi_pc = "idle"
    /\ mi_results = <<>>
    /\ mi_requested = <<>>
    /\ mi_info = <<>>

\* the try block after "Try to find MusicBrainz data", up to the return
get_artist_full_data_match ==
    /\ mi_pc = "idle"
    /\ \/ \* search_artists raises MusicBrainzError: a warning is printed
          /\ mi_pc' = "returned"
          /\ UNCHANGED <<mi_results, mi_requested, mi_info>>
       \/ \E artists \in SearchResults :
             /\ mi_results' = artists
             /\ IF artists = <<>>
                   THEN /\ mi_pc' = "returned"
                        /\ UNCHANGED <<mi_requested, mi_info>>
                   ELSE LET found == BestMatch(artists, 1, 0, 0)
                        IN  IF found.raised
                                THEN /\ mi_pc' = "raised"
                                     /\ UNCHANGED <<mi_requested, mi_info>>
                                ELSE IF HighConfidence(found.best_match, found.highest_score)
                                         THEN /\ mi_requested' = <<found.best_match>>
                                              /\ mi_pc' = "returned"
                                              /\ \/ mi_info' = <<[id |-> found.best_match]>>
                                                 \/ \* get_artist_info raises MusicBrainzError
                                                    UNCHANGED mi_info
                                         ELSE /\ mi_pc' = "returned"
                                              /\ UNCHANGED <<mi_requested, mi_info>>

(***************************************************************************)
(* Specifications.                                                         *)
(***************************************************************************)

Init == PageInit /\ RateIdle /\ ScraperIdle /\ MatchIdle /\ AuthInit /\ DbInit /\ ArtistLyricsIdle /\ CallIdle /\ BatchIdle /\ MusixmatchIdle /\ TimelineIdle /\ CleanupIdle /\ SimilarityIdle /\ StatsIdle /\ VocabularyIdle /\ PagingIdle /\ MatchInfoIdle

\* the paginated fetches alone
OnlyPage == UNCHANGED <<rateVars, scraperVars, matchVars, authVars, dbVars, artistLyricsVars, callVars, batchVars, musixmatchVars, timelineVars, cleanupVars, similarityVars, statsVars, vocabularyVars, pagingVars, matchInfoVars>>

NextPage ==
    \/ \E fn \in PagedFns : PageCall(fn) /\ OnlyPage
    \/ PageRaise /\ OnlyPage
    \/ get_all_artist_albums /\ OnlyPage
    \/ get_all_album_tracks /\ OnlyPage
    \/ get_artist_timeline /\ OnlyPage
    \/ get_artist_info /\ OnlyPage

SpecPage == Init /\ [][NextPage]_vars

\* one client's rate limiter alone
InitRate ==
    /\ PageInit
    /\ ScraperIdle
    /\ MatchIdle
    /\ AuthInit
    /\ DbInit
    /\ MatchInfoIdle
    /\ PagingIdle
    /\ VocabularyIdle
    /\ StatsIdle
    /\ SimilarityIdle
    /\ CleanupIdle
    /\ TimelineIdle
    /\ MusixmatchIdle
    /\ BatchIdle
    /\ CallIdle
    /\ ArtistLyricsIdle
    /\ RateHistoryInit
    /\ (MusicBrainzClientInit \/ LyricsScraperInit)

OnlyRate == UNCHANGED <<pageVars, scraperVars, matchVars, authVars, dbVars, artistLyricsVars, callVars, batchVars, musixmatchVars, timelineVars, cleanupVars, similarityVars, statsVars, vocabularyVars, pagingVars, matchInfoVars>>

NextRate ==
    \/ Tick /\ OnlyRate
    \/ MusicBrainzClient_respect_rate_limit /\ OnlyRate
    \/ LyricsScraper_respect_rate_limit /\ OnlyRate

SpecRate == InitRate /\ [][NextRate]_vars

\* a LyricsScraper serving get_song_lyrics calls
InitScraper ==
    /\ PageInit
    /\ ScraperIdle
    /\ MatchIdle
    /\ AuthInit
    /\ DbInit
    /\ MatchInfoIdle
    /\ PagingIdle
    /\ VocabularyIdle
    /\ StatsIdle
    /\ SimilarityIdle
    /\ CleanupIdle
    /\ TimelineIdle
    /\ MusixmatchIdle
    /\ BatchIdle
    /\ CallIdle
    /\ ArtistLyricsIdle
    /\ RateHistoryInit
    /\ LyricsScraperInit

OnlyScraper == UNCHANGED <<pageVars, matchVars, authVars, dbVars, artistLyricsVars, callVars, batchVars, musixmatchVars, timelineVars, cleanupVars, similarityVars, statsVars, vocabularyVars, pagingVars, matchInfoVars>>

NextScraper ==
    \/ get_song_lyrics /\ OnlyScraper
    \/ search_azlyrics /\ OnlyScraper
    \/ get_lyrics_from_azlyrics /\ OnlyScraper
    \/ search_metrolyrics /\ OnlyScraper
    \/ get_lyrics_from_metrolyrics /\ OnlyScraper
    \/ search_lyrics_com /\ OnlyScraper
    \/ get_lyrics_from_lyrics_com /\ OnlyScraper

SpecScraper == InitScraper /\ [][NextScraper]_vars

\* the entity matchers alone
OnlyMatch == UNCHANGED <<pageVars, rateVars, scraperVars, authVars, dbVars, artistLyricsVars, callVars, batchVars, musixmatchVars, timelineVars, cleanupVars, similarityVars, statsVars, vocabularyVars, pagingVars, matchInfoVars>>

NextMatch ==
    \/ find_musicbrainz_artist_call /\ OnlyMatch
    \/ find_musicbrainz_release_call /\ OnlyMatch
    \/ find_musicbrainz_release_group_call /\ OnlyMatch
    \/ find_track_matches_call /\ OnlyMatch
    \/ find_track_matches /\ OnlyMatch

SpecMatch == Init /\ [][NextMatch]_vars

\* a SpotifyClient serving authenticated requests while time passes
OnlyAuth == UNCHANGED <<pageVars, scraperVars, matchVars, dbVars, artistLyricsVars, callVars, batchVars, musixmatchVars, timelineVars, cleanupVars, similarityVars, statsVars, vocabularyVars, pagingVars, matchInfoVars>>

NextAuth ==
    \/ Tick /\ UNCHANGED authVars /\ OnlyAuth
    \/ get_artist /\ OnlyAuth

SpecAuth == Init /\ [][NextAuth]_vars

\* the three write operations of MongoDBClient, one call after another
OnlyDb == UNCHANGED <<pageVars, rateVars, scraperVars, matchVars, authVars, artistLyricsVars, callVars, batchVars, musixmatchVars, timelineVars, cleanupVars, similarityVars, statsVars, vocabularyVars, pagingVars, matchInfoVars>>

NextDb ==
    \/ insert_artist /\ OnlyDb
    \/ update_artist /\ OnlyDb
    \/ upsert_artist /\ OnlyDb

SpecDb == Init /\ [][NextDb]_vars

\* upsert_artist calls alone, one after another, on a new collection
NextUpsert == upsert_artist /\ OnlyDb

SpecUpsert == Init /\ [][NextUpsert]_vars

\* two writers whose upsert_artist calls interleave at their store calls
NextUpsertRace ==
    \/ \E w \in Writers : upsert_artist_find_one(w) /\ OnlyDb
    \/ \E w \in Writers : upsert_artist_write(w) /\ OnlyDb

SpecUpsertRace == Init /\ [][NextUpsertRace]_vars

OnlyArtistLyrics == UNCHANGED <<pageVars, rateVars, scraperVars, matchVars, authVars, dbVars, callVars, batchVars, musixmatchVars, timelineVars, cleanupVars, similarityVars, statsVars, vocabularyVars, pagingVars, matchInfoVars>>

NextArtistLyrics ==
    \/ get_artist_lyrics /\ OnlyArtistLyrics
    \/ get_artist_lyrics_fetch /\ OnlyArtistLyrics
    \/ get_artist_lyrics_return /\ OnlyArtistLyrics

SpecArtistLyrics == Init /\ [][NextArtistLyrics]_vars

OnlyCall == UNCHANGED <<pageVars, rateVars, scraperVars, matchVars, authVars, dbVars, artistLyricsVars, batchVars, musixmatchVars, timelineVars, cleanupVars, similarityVars, statsVars, vocabularyVars, pagingVars, matchInfoVars>>

NextCall ==
    \/ client_call /\ OnlyCall
    \/ client_ensure_auth /\ OnlyCall
    \/ client_send /\ OnlyCall
    \/ client_map /\ OnlyCall

SpecCall == Init /\ [][NextCall]_vars

OnlyBatch == UNCHANGED <<pageVars, rateVars, scraperVars, matchVars, authVars, dbVars, artistLyricsVars, callVars, musixmatchVars, timelineVars, cleanupVars, similarityVars, statsVars, vocabularyVars, pagingVars, matchInfoVars>>

NextBatch ==
    \/ collect_artists_main /\ OnlyBatch
    \/ get_artist_full_data_stats /\ OnlyBatch
    \/ get_artist_full_data_albums /\ OnlyBatch
    \/ get_artist_full_data_musicbrainz /\ OnlyBatch
    \/ collect_artists_upsert /\ OnlyBatch

SpecBatch == Init /\ [][NextBatch]_vars

OnlyMusixmatch == UNCHANGED <<pageVars, rateVars, scraperVars, matchVars, authVars, dbVars, artistLyricsVars, callVars, batchVars, timelineVars, cleanupVars, similarityVars, statsVars, vocabularyVars, pagingVars, matchInfoVars>>

NextMusixmatch ==
    \/ get_all_artist_tracks_call /\ OnlyMusixmatch
    \/ get_all_artist_tracks_return /\ OnlyMusixmatch
    \/ get_all_artist_tracks_raise /\ OnlyMusixmatch
    \/ get_all_artist_tracks /\ OnlyMusixmatch

SpecMusixmatch == Init /\ [][NextMusixmatch]_vars

OnlyTimeline == UNCHANGED <<pageVars, rateVars, scraperVars, matchVars, authVars, dbVars, artistLyricsVars, callVars, batchVars, musixmatchVars, cleanupVars, similarityVars, statsVars, vocabularyVars, pagingVars, matchInfoVars>>

NextTimeline ==
    \/ SpotifyClient_get_artist_timeline /\ OnlyTimeline
    \/ MusicBrainzClient_get_artist_timeline /\ OnlyTimeline

SpecTimeline == Init /\ [][NextTimeline]_vars

OnlyCleanup == UNCHANGED <<pageVars, rateVars, scraperVars, matchVars, authVars, dbVars, artistLyricsVars, callVars, batchVars, musixmatchVars, timelineVars, similarityVars, statsVars, vocabularyVars, pagingVars, matchInfoVars>>

NextCleanup ==
    \/ cleanup_artist /\ OnlyCleanup
    \/ cleanup_artist_stored /\ OnlyCleanup

SpecCleanup == Init /\ [][NextCleanup]_vars

OnlySimilarity == UNCHANGED <<pageVars, rateVars, scraperVars, matchVars, authVars, dbVars, artistLyricsVars, callVars, batchVars, musixmatchVars, timelineVars, cleanupVars, statsVars, vocabularyVars, pagingVars, matchInfoVars>>

InitSimilarity ==
    /\ PageInit
    /\ RateIdle
    /\ ScraperIdle
    /\ MatchIdle
    /\ AuthInit
    /\ DbInit
    /\ MatchInfoIdle
    /\ PagingIdle
    /\ VocabularyIdle
    /\ StatsIdle
    /\ ArtistLyricsIdle
    /\ CallIdle
    /\ BatchIdle
    /\ MusixmatchIdle
    /\ TimelineIdle
    /\ CleanupIdle
    /\ SimilarityInputs

NextSimilarity == name_similarity_call /\ OnlySimilarity

SpecSimilarity == InitSimilarity /\ [][NextSimilarity]_vars

OnlyStats == UNCHANGED <<pageVars, rateVars, scraperVars, matchVars, authVars, dbVars, artistLyricsVars, callVars, batchVars, musixmatchVars, timelineVars, cleanupVars, similarityVars, vocabularyVars, pagingVars, matchInfoVars>>

NextStats ==
    \/ get_artist_stats /\ OnlyStats
    \/ get_artist_info_counts /\ OnlyStats

SpecStats == Init /\ [][NextStats]_vars

OnlyVocabulary == UNCHANGED <<pageVars, rateVars, scraperVars, matchVars, authVars, dbVars, artistLyricsVars, callVars, batchVars, musixmatchVars, timelineVars, cleanupVars, similarityVars, statsVars, pagingVars, matchInfoVars>>

NextVocabulary == analyze_lyrics /\ OnlyVocabulary

SpecVocabulary == Init /\ [][NextVocabulary]_vars

\* the pagination loops of the three clients against providers that hold a
\* finite number of items and answer every request; one client is called
\* in a behaviour, and a loop is cut off after MaxRequests requests
MaxRequests == CeilDiv(MaxTotal, SpotifyLimit) + 2

NextPaged ==
    \/ \E fn \in PagedFns : PageCall(fn) /\ mx_pc = "idle" /\ OnlyPage
    \/ get_all_artist_albums /\ pg_requests < MaxRequests /\ OnlyPage
    \/ get_all_album_tracks /\ pg_requests < MaxRequests /\ OnlyPage
    \/ get_artist_timeline /\ pg_requests < MaxRequests /\ OnlyPage
    \/ get_artist_info /\ pg_requests < MaxRequests /\ OnlyPage
    \/ get_all_artist_tracks_call /\ pg_pc = "idle" /\ OnlyMusixmatch
    \/ get_all_artist_tracks_return /\ OnlyMusixmatch
    \/ get_all_artist_tracks /\ mx_page < MaxRequests /\ OnlyMusixmatch

\* a loop that can make its next iteration, or return, does so
FairPaged ==
    /\ WF_vars(get_all_artist_albums /\ pg_requests < MaxRequests /\ OnlyPage)
    /\ WF_vars(get_all_album_tracks /\ pg_requests < MaxRequests /\ OnlyPage)
    /\ WF_vars(get_artist_timeline /\ pg_requests < MaxRequests /\ OnlyPage)
    /\ WF_vars(get_artist_info /\ pg_requests < MaxRequests /\ OnlyPage)
    /\ WF_vars(get_all_artist_tracks_return /\ OnlyMusixmatch)
    /\ WF_vars(get_all_artist_tracks /\ mx_page < MaxRequests /\ OnlyMusixmatch)

SpecPagedFair == Init /\ [][NextPaged]_vars /\ FairPaged

OnlyPaging == UNCHANGED <<pageVars, rateVars, scraperVars, matchVars, authVars, dbVars, artistLyricsVars, callVars, batchVars, musixmatchVars, timelineVars, cleanupVars, similarityVars, statsVars, vocabularyVars, matchInfoVars>>

NextPaging ==
    \/ paged_call /\ OnlyPaging
    \/ get_all_artist_albums_step /\ OnlyPaging
    \/ get_all_album_tracks_step /\ OnlyPaging
    \/ get_artist_timeline_step /\ OnlyPaging
    \/ get_artist_info_step /\ OnlyPaging
    \/ get_all_artist_tracks_exit /\ OnlyPaging
    \/ get_all_artist_tracks_step /\ OnlyPaging

SpecPaging == Init /\ [][NextPaging]_vars

OnlyMatchInfo == UNCHANGED <<pageVars, rateVars, scraperVars, matchVars, authVars, dbVars, artistLyricsVars, callVars, batchVars, musixmatchVars, timelineVars, cleanupVars, similarityVars, statsVars, vocabularyVars, pagingVars>>

NextMatchInfo == get_artist_full_data_match /\ OnlyMatchInfo

SpecMatchInfo == Init /\ [][NextMatchInfo]_vars

(***************************************************************************)
(* Paginated fetch: number of page requests and the aggregated result.     *)
(***************************************************************************)
\* C1 as stated: a paginated fetch that returns has issued exactly
\* ceil(total_items / page_size) page requests, for every total_items >= 0.
C1_CeilRequests ==
    pg_pc = "returned" => pg_requests = CeilDiv(pg_total, PageLimit(pg_fn))

\* C1 amended: Spotify's get_all_artist_albums (and get_all_album_tracks, the
\* same loop), which stops on a null "next", issues
\* max(1, ceil(total_items / 50)) page requests; the MusicBrainz
\* release-group loops, which stop on a page shorter than 100, issue
\* floor(total_items / 100) + 1 page requests (one more than the ceiling
\* when total_items is a multiple of 100).
C1_RequestCount ==
    pg_pc = "returned" =>
        pg_requests = IF pg_fn \in SpotifyPagedFns
                         THEN Max(1, CeilDiv(pg_total, PageLimit(pg_fn)))
                         ELSE (pg_total \div PageLimit(pg_fn)) + 1

\* a MusicBrainz fetch of exactly two full pages has returned after a third,
\* empty page
C1_Witness ==
    /\ pg_pc = "returned"
    /\ pg_fn = "get_artist_timeline"
    /\ pg_total = 2 * PageLimit(pg_fn)
    /\ pg_requests = 3

\* C2: a paginated fetch that returns holds every record of the provider
\* exactly once and in provider order.
C2_AllItemsInOrder ==
    pg_pc = "returned" => pg_all = ProviderItems(pg_total)

\* a fetch over several pages, the last of them partial, has returned
C2_Witness ==
    /\ pg_pc = "returned"
    /\ pg_requests >= 2
    /\ pg_total % PageLimit(pg_fn) # 0
    /\ Len(pg_all) = pg_total

(***************************************************************************)
(* Rate limiter: the interval between recorded stamps.                     *)
(***************************************************************************)
\* C3: the stamps two consecutive limiter calls record in last_request_time
\* differ by at least rate_limit.
C3_MinInterval ==
    rl_gap # <<>> => rl_gap[1] >= rate_limit

\* a second limiter call came early and had to sleep
C3_Witness ==
    /\ rl_gap # <<>>
    /\ rl_slept # <<>>
    /\ rl_slept[1] > 0

(***************************************************************************)
(* Lyrics scraper: the limiter wait before every outbound request.         *)
(***************************************************************************)
\* C4: every outbound HTTP request of the scraper is immediately preceded by
\* a call of the rate-limiter wait.
C4_EveryRequestRateLimited ==
    \A i \in 1..Len(ls_trace) :
        ls_trace[i] \in HttpRequests =>
            i > 1 /\ ls_trace[i - 1] = "respect_rate_limit"

(***************************************************************************)
(* Entity matcher: the result is the earliest best candidate or none.      *)
(***************************************************************************)
\* the earliest result whose score no other result exceeds
EarliestBest(target, cands) ==
    CHOOSE i \in 1..Len(cands) :
        /\ \A j \in 1..Len(cands) :
              ScoreGe(name_similarity(target, cands[i]), name_similarity(target, cands[j]))
        /\ \A j \in 1..(i - 1) :
              ~ScoreGe(name_similarity(target, cands[j]), name_similarity(target, cands[i]))

\* C5: each matcher returns the candidate with the maximum similarity score
\* when that score is >= threshold, the earliest such candidate on a tie,
\* and none otherwise, for every candidate list and every threshold in [0,1].
C5_EarliestBestOrNone ==
    (m_fn # "none" /\ (m_fn = "find_track_matches" => m_track_id # "none")) =>
        /\ m_result =
              IF m_cands = <<>> THEN <<>>
              ELSE LET i == EarliestBest(m_target, m_cands)
                   IN  IF ScoreGe(name_similarity(m_target, m_cands[i]), m_threshold)
                          THEN <<i>> ELSE <<>>
        /\ (m_fn = "find_track_matches" /\ m_result # <<>>) =>
              /\ m_track_id \in DOMAIN m_matches
              /\ m_matches[m_track_id].musicbrainz_recording = m_result[1]

(***************************************************************************)
(* Spotify token cache: when a token exchange happens.                     *)
(***************************************************************************)
\* the cached token counts as valid at time now only while now < expires_at
TokenValidAt(token, now) ==
    /\ token # <<>>
    /\ token[1].expires_at # <<>>
    /\ now < token[1].expires_at[1]

\* C6: an authenticated request performs a token exchange exactly when no
\* token is cached, the cached token has no expiry, or its expires_at <= the
\* current time; otherwise it performs none and the cached token stays as it
\* was.  With no cached token exactly one exchange precedes the data request.
C6_ExchangeIffStale ==
    au_outcome # "none" =>
        /\ TokenValidAt(au_before, au_at) => (au_exchanges = 0 /\ au_token = au_before)
        /\ ~TokenValidAt(au_before, au_at) => au_exchanges = 1
        /\ (au_before = <<>> /\ au_sent) => au_exchanges = 1

\* a request found the cached token expiring at that very instant, exchanged
\* it and sent its data request
C6_Witness ==
    /\ au_outcome = "returned"
    /\ au_before # <<>>
    /\ au_before[1].expires_at = <<au_at>>
    /\ au_exchanges = 1
    /\ au_sent
    /\ au_token # au_before

(***************************************************************************)
(* Lyrics sources: order of consultation and the aggregate error.          *)
(***************************************************************************)
\* C11: get_song_lyrics consults AZLyrics, MetroLyrics, Lyrics.com in that
\* order, a source only after every earlier one failed (no URL, or its
\* fetch raised), and it returns the result of the first source whose
\* search gives a URL and whose fetch succeeds.
C11_SourcesInOrder ==
    /\ Len(ls_log) <= Len(Sources)
    /\ \A i \in 1..Len(ls_log) : ls_log[i].source = Sources[i]
    /\ \A i \in 1..Len(ls_log) - 1 : ls_log[i].outcome \in {"no url", "raised"}
    /\ ls_pc \in {"search", "get"} =>
          /\ ls_src = Len(ls_log) + 1
          /\ \A i \in 1..Len(ls_log) : ls_log[i].outcome \in {"no url", "raised"}
    /\ ls_pc = "returned" =>
          /\ ls_log # <<>>
          /\ ls_log[Len(ls_log)].outcome = "fetched"
          /\ ls_result = <<ls_log[Len(ls_log)].source>>
    /\ ls_result # <<>> => ls_pc = "returned"

\* the third source returned the lyrics after the first two had failed, one
\* at its search and one at its fetch
C11_Witness ==
    /\ ls_pc = "returned"
    /\ ls_result = <<"Lyrics.com">>
    /\ Len(ls_log) = 3
    /\ ls_log[1].outcome = "raised"
    /\ ls_log[2].outcome = "no url"

\* the reasons of the visits that ended in a raised fetch, in order
RECURSIVE RaisedReasons(_)

RaisedReasons(log) ==
    IF log = <<>> THEN <<>>
    ELSE IF log[1].outcome = "raised"
            THEN <<log[1].reason>> \o RaisedReasons(Tail(log))
            ELSE RaisedReasons(Tail(log))

\* C12 as stated: when every source fails, get_song_lyrics raises one
\* LyricsScraperError, returns nothing, and the message holds one failure
\* reason for each failed source.
C12_ReasonPerFailedSource ==
    ls_pc = "raised" =>
        /\ ls_result = <<>>
        /\ Len(ls_errors) = Len(Sources)

\* C12 amended: when every source fails, get_song_lyrics raises one
\* LyricsScraperError, returns nothing, and the message holds, in source
\* order, the reason of each source whose fetch raised and nothing for a
\* source whose search returned no URL.
C12_ReasonPerRaisedFetch ==
    /\ ls_pc = "raised" <=>
          /\ Len(ls_log) = Len(Sources)
          /\ \A i \in 1..Len(ls_log) : ls_log[i].outcome \in {"no url", "raised"}
    /\ ls_pc = "raised" =>
          /\ ls_result = <<>>
          /\ ls_errors = RaisedReasons(ls_log)

\* every source failed, some at the search and some at the fetch
C12_Witness ==
    /\ ls_pc = "raised"
    /\ \E i, j \in 1..Len(ls_log) :
          ls_log[i].outcome = "no url" /\ ls_log[j].outcome = "raised"
    /\ Len(ls_errors) < Len(Sources)

(***************************************************************************)
(* Persistence: documents per spotify_id, and what an upsert stores.       *)
(***************************************************************************)
\* number of documents of the collection with the given spotify_id
DocCount(sid) == Cardinality(Matching(db_docs, sid))

\* the stored document of a spotify_id that has one
StoredDoc(sid) == db_docs[FirstMatching(db_docs, sid)]

\* a document without its _id
WithoutId(doc) == [f \in DOMAIN doc \ {"_id"} |-> doc[f]]

\* C7: whatever sequence of insert_artist, update_artist and upsert_artist
\* calls ran, the collection holds at most one document per spotify_id.
C7_OneDocPerSpotifyId ==
    \A sid \in SpotifyIds : DocCount(sid) <= 1

\* C8: when the upserts of two writers interleave at their store calls, the
\* collection still ends with exactly one document for every spotify_id
\* that was upserted.
C8_RaceLeavesOneDoc ==
    (\A w \in Writers : w_pc[w] = "idle") =>
        \A sid \in SpotifyIds : db_upserts[sid] > 0 => DocCount(sid) = 1

\* the last completed operation was an upsert_artist call for sid
LastUpsertFor(sid) ==
    /\ db_last.op = "upsert_artist"
    /\ db_last.data["spotify_id"] = sid

\* C9: after the second upsert_artist call for a spotify_id the collection
\* holds exactly one document with that spotify_id, every field of the
\* second payload has the second payload's value, the first call reported
\* "insert" and the second "update".
C9_SecondUpsertUpdates ==
    \A sid \in SpotifyIds :
        (LastUpsertFor(sid) /\ db_upserts[sid] = 2) =>
            /\ DocCount(sid) = 1
            /\ \A f \in DOMAIN db_last.data : StoredDoc(sid)[f] = db_last.data[f]
            /\ db_first_op[sid] = "insert"
            /\ db_last.operation = "update"

\* a second upsert for a spotify_id came with another name than the first
C9_Witness ==
    \E sid \in SpotifyIds :
        /\ LastUpsertFor(sid)
        /\ db_upserts[sid] = 2
        /\ db_last.existing # <<>>
        /\ db_last.existing[1]["name"] # db_last.data["name"]
        /\ StoredDoc(sid)["name"] = db_last.data["name"]

\* C10 as stated: after upsert_artist has updated an existing document, the
\* stored document without its _id equals the new payload.
C10_FullReplace ==
    (db_last.op = "upsert_artist" /\ db_last.operation = "update") =>
        WithoutId(StoredDoc(db_last.data["spotify_id"])) = db_last.data

\* C10 amended: after upsert_artist has updated an existing document, every
\* field of the new payload has the payload's value and every other field
\* of the previous version, _id included, is still there with its previous
\* value.
C10_SetMerges ==
    (db_last.op = "upsert_artist" /\ db_last.operation = "update") =>
        LET doc  == StoredDoc(db_last.data["spotify_id"])
            prev == db_last.existing[1]
        IN  /\ DOMAIN doc = DOMAIN prev \cup DOMAIN db_last.data
            /\ \A f \in DOMAIN db_last.data : doc[f] = db_last.data[f]
            /\ \A f \in DOMAIN prev \ DOMAIN db_last.data : doc[f] = prev[f]

\* an update whose payload has no album_counts left the previous one in place
C10_Witness ==
    /\ db_last.op = "upsert_artist"
    /\ db_last.operation = "update"
    /\ "album_counts" \in DOMAIN db_last.existing[1]
    /\ "album_counts" \notin DOMAIN db_last.data
    /\ "album_counts" \in DOMAIN StoredDoc(db_last.data["spotify_id"])

(***************************************************************************)
(* Lyrics of several songs of an artist.                                   *)
(***************************************************************************)
\* C13: get_artist_lyrics(artist, max_songs) attempts at most max_songs of
\* the discovered songs, returns the lyrics fetched in discovery order (so
\* at most max_songs entries), and a fetch error for one song neither fails
\* the call nor keeps the later songs from being fetched.  A max_songs
\* below zero is read as allowing no song.
C13_AtMostMaxSongs ==
    /\ Len(al_attempted) <= Max(al_max_songs, 0)
    /\ Len(al_lyrics_list) <= Max(al_max_songs, 0)
    /\ \A i, j \in 1..Len(al_lyrics_list) : i < j => al_lyrics_list[i] < al_lyrics_list[j]
    /\ al_pc = "returned" =>
          /\ al_attempted = al_song_urls
          /\ \A i \in 1..Len(al_attempted) :
                al_attempted[i] \notin al_failed =>
                    \E j \in 1..Len(al_lyrics_list) : al_lyrics_list[j] = al_attempted[i]

(***************************************************************************)
(* Provider clients: the error that reaches the caller, and resends.       *)
(***************************************************************************)
Last(seq) == seq[Len(seq)]

C15_NoResend ==
    /\ \A i, j \in 1..Len(cc_sent) : cc_sent[i] = cc_sent[j] => i = j
    /\ cc_failure # <<>> => cc_pc = "raised"

\* Spotify rejected the data request that followed a token exchange
C15_Witness ==
    /\ cc_pc = "raised"
    /\ cc_op.provider = "Spotify"
    /\ cc_sent = <<"POST /api/token", "GET " \o cc_op.name>>
    /\ cc_failure = <<Raised("HTTPError", "401 Client Error")>>

(***************************************************************************)
(* The artist-collection batch and provider errors.                        *)
(***************************************************************************)
\* C16: a SpotifyError or MusicBrainzError raised while the data of one
\* artist is fetched does not abort the batch: unless the store itself
\* fails, every artist before the current one has been upserted, those
\* with a failed fetch included, and the run ends with all of them upserted.
C16_ProviderErrorAbsorbed ==
    /\ ba_pc \in {"stats", "albums", "musicbrainz", "upsert"} =>
          ba_upserted = SubSeq(ba_new_artists, 1, ba_i - 1)
    /\ ba_pc = "done" => ba_upserted = ba_new_artists
    /\ ba_pc \in {"idle", "stats", "albums", "musicbrainz", "upsert", "done", "store failed"}

\* the first artist of the batch had a failed fetch, and the run ended with
\* every artist upserted
C16_Witness ==
    /\ ba_pc = "done"
    /\ Len(ba_new_artists) >= 2
    /\ \E section \in {"stats", "albums", "musicbrainz"} : <<1, section>> \in ba_errors
    /\ ba_upserted = ba_new_artists

(***************************************************************************)
(* Musixmatch: the limit of get_all_artist_tracks.                         *)
(***************************************************************************)
\* C17: get_all_artist_tracks(artist_id, limit) never returns more than
\* limit tracks, for any limit >= 0.
C17_AtMostLimit ==
    mx_pc = "returned" => Len(mx_all_tracks) <= mx_limit

(***************************************************************************)
(* Release timelines: order of the years and of the releases of a year.    *)
(***************************************************************************)
YearsAscending(timeline) ==
    \A i, j \in 1..Len(timeline) : i < j => timeline[i].year < timeline[j].year

\* no release of the year comes before one of an earlier date
OldestFirst(releases) ==
    \A i, j \in 1..Len(releases) : i < j => ~DateLess(releases[j].date, releases[i].date)

\* no release of the year comes before one of a later date
NewestFirst(releases) ==
    \A i, j \in 1..Len(releases) : i < j => ~DateLess(releases[i].date, releases[j].date)

\* the releases listed
Ids(releases) == {releases[i].id : i \in 1..Len(releases)}

\* C18 as stated: get_artist_timeline returns the years in ascending order
\* and the releases of each year in ascending release-date order, for the
\* Spotify client and the MusicBrainz client alike.
C18_AscendingWithinYear ==
    tl_timeline # <<>> =>
        /\ YearsAscending(tl_timeline[1])
        /\ \A i \in 1..Len(tl_timeline[1]) : OldestFirst(tl_timeline[1][i].releases)

\* C18 amended: get_artist_timeline returns the years in ascending order;
\* the releases of each year come in ascending release-date order from the
\* MusicBrainz client and in descending order, newest first, from the
\* Spotify client.
C18_NewestFirstForSpotify ==
    tl_timeline # <<>> =>
        /\ YearsAscending(tl_timeline[1])
        /\ \A i \in 1..Len(tl_timeline[1]) :
              /\ Ids(tl_timeline[1][i].releases) = Ids(OfYear(tl_releases, tl_timeline[1][i].year))
              /\ Len(tl_timeline[1][i].releases) = Len(OfYear(tl_releases, tl_timeline[1][i].year))
              /\ IF tl_client = "Spotify"
                    THEN NewestFirst(tl_timeline[1][i].releases)
                    ELSE OldestFirst(tl_timeline[1][i].releases)

\* the Spotify client fetched the older of two albums of a year first and
\* returned the newer one first
C18_Witness ==
    /\ tl_client = "Spotify"
    /\ Len(tl_releases) >= 2
    /\ YearOf(tl_releases[1].date) = YearOf(tl_releases[2].date)
    /\ DateLess(tl_releases[1].date, tl_releases[2].date)
    /\ tl_timeline[1][1].releases[1].id = 2

(***************************************************************************)
(* cleanup_artist: order of the release lists.                             *)
(***************************************************************************)
\* C19: cleanup_artist outputs each of the albums, singles and compilations
\* lists sorted newest first, whatever order the stored lists had.
C19_ListsNewestFirst ==
    cu_cleaned # <<>> =>
        \A f \in ReleaseFields \cap DOMAIN cu_cleaned[1] : NewestFirst(cu_cleaned[1][f])

(***************************************************************************)
(* name_similarity: argument order.                                        *)
(***************************************************************************)
\* x = y on scores
ScoreEq(x, y) == x[1] * y[2] = y[1] * x[2]

\* C20: name_similarity is symmetric: name_similarity(a, b) equals
\* name_similarity(b, a) for all names a and b.
C20_Symmetric ==
    sim_score # <<>> => ScoreEq(sim_score[1], sim_swapped[1])

\* C21: name_similarity(x, x) is 1.0 for every non-empty name x, also when
\* the normalized form of x is empty (only punctuation or blanks).
C21_SelfSimilarityOne ==
    (sim_score # <<>> /\ sim_name1 = sim_name2 /\ sim_name1 # <<>>) =>
        ScoreEq(sim_score[1], <<1, 1>>)

\* a name of punctuation only was compared with itself
C21_Witness ==
    /\ sim_score = << <<1, 1>> >>
    /\ sim_name1 = <<"!">>
    /\ sim_name2 = <<"!">>
    /\ normalize_name(sim_name1) = <<>>

(***************************************************************************)
(* Rate limiter: the first call.                                           *)
(***************************************************************************)
\* C22: the first limiter call of a newly constructed client does not
\* sleep; it records the time of the call as the last request time.
C22_FirstCallNoSleep ==
    rl_calls = 1 =>
        /\ rl_slept = <<0>>
        /\ rl_gap = <<>>
        /\ last_request_time # <<>>
        /\ last_request_time[1] > 0
        /\ last_request_time[1] <= clock

\* a scraper with a rate limit longer than the time since its construction
\* made its first limiter call
C22_Witness ==
    /\ rl_calls = 1
    /\ rl_class = "LyricsScraper"
    /\ rate_limit = MaxRate
    /\ last_request_time[1] < rate_limit
    /\ rl_slept = <<0>>

(***************************************************************************)
(* Aggregate statistics.                                                   *)
(***************************************************************************)
RECURSIVE PopularityTotal(_, _)
PopularityTotal(top_tracks, n) ==
    IF n = 0
        THEN 0
        ELSE PopularityTotal(top_tracks, n - 1)
                 + (IF top_tracks[n] = <<>> THEN 0 ELSE top_tracks[n][1])

\* C23: average_track_popularity is the sum of the top tracks' popularity
\* values, a missing one counted as 0, divided by the number of top tracks,
\* and 0 when there are no top tracks.
C23_MeanPopularity ==
    st_avg # <<>> =>
        IF Len(st_top_tracks) = 0
            THEN st_avg[1][1] = 0 /\ st_avg[1][2] > 0
            ELSE /\ st_avg[1][2] > 0
                 /\ st_avg[1][1] * Len(st_top_tracks)
                        = PopularityTotal(st_top_tracks, Len(st_top_tracks)) * st_avg[1][2]

\* two top tracks, one of them without a popularity: the mean is 50 / 2
C23_Witness ==
    /\ st_client = "spotify"
    /\ st_top_tracks = << <<50>>, <<>> >>
    /\ st_avg = << <<50, 2>> >>

\* C28: in the statistics of both clients the "total" bucket is the number
\* of release records fetched, whatever their release-type strings are.
C28_TotalIsRecordCount ==
    st_counts # <<>> => st_counts[1]["total"] = Len(st_records)

(***************************************************************************)
(* Vocabulary metrics.                                                     *)
(***************************************************************************)
InUnitInterval(q) == q[2] > 0 /\ 0 <= q[1] /\ q[1] <= q[2]

\* C24: for every text, unique_word_count <= number of filtered words <=
\* total_words, type_token_ratio and lexical_density lie in [0, 1],
\* average_word_length is >= 0, and the three metrics are 0 when the text
\* has no alphabetic token.
C24_MetricsBounded ==
    va_metrics # <<>> =>
        LET m == va_metrics[1]
            lyrics == va_lyrics[1]
        IN  /\ m.unique_word_count <= m.content_words_count
            /\ m.content_words_count <= m.total_words
            /\ InUnitInterval(m.type_token_ratio)
            /\ InUnitInterval(m.lexical_density)
            /\ m.average_word_length[2] > 0
            /\ m.average_word_length[1] >= 0
            /\ ((m.total_words = 0 \/ \A i \in 1..Len(lyrics) : lyrics[i] \notin Letters) =>
                    /\ m.type_token_ratio[1] = 0
                    /\ m.average_word_length[1] = 0
                    /\ m.lexical_density[1] = 0)

\* two words with one root, neither a stop word
C24_Witness ==
    /\ va_lyrics = << <<"A", "b", " ", "a", "b", "s">> >>
    /\ va_metrics # <<>>
    /\ va_metrics[1].total_words = 2
    /\ va_metrics[1].content_words_count = 2
    /\ va_metrics[1].unique_word_count = 1
    /\ va_metrics[1].type_token_ratio = <<1, 2>>

(***************************************************************************)
(* Pagination: the page after which a loop stops.                          *)
(***************************************************************************)
\* the page received last is short of the page size asked for
LastPageShort ==
    pl_last # <<>> /\ pl_last[1].items < PagingSize(pl_fn, pl_limit)

LastPageEmpty == pl_last # <<>> /\ pl_last[1].items = 0

\* a Spotify page whose "next" is null
LastPageNoNext ==
    pl_last # <<>> /\ pl_fn \in SpotifyPagedFns /\ pl_last[1].next_none

\* C25 as stated: in every paginated fetch no page is requested after a page
\* with fewer items than the page size, with zero items, or (Spotify) with
\* no next page.
C25_NoRequestAfterLastPage ==
    [][(LastPageShort \/ LastPageEmpty \/ LastPageNoNext) =>
           pl_requests' = pl_requests]_vars

\* C25 as the code has it: the MusicBrainz and Musixmatch loops request no
\* page after a short or an empty page; the Spotify loops request no page
\* after an empty page or a page without next, and do request the next page
\* after a short page that has a next link.
C25_NoRequestAfterLastPageOfProvider ==
    [][/\ ((IF pl_fn \in SpotifyPagedFns
                THEN LastPageEmpty \/ LastPageNoNext
                ELSE LastPageShort \/ LastPageEmpty) => pl_requests' = pl_requests)
       /\ (pl_fn \in SpotifyPagedFns /\ pl_last # <<>> /\ pl_pc = "loop") =>
              (pl_last[1].items > 0 /\ ~pl_last[1].next_none)]_vars

\* a Spotify loop went on after a short page with a next link and stopped
\* at the page without one
C25_Witness ==
    /\ pl_fn = "get_all_album_tracks"
    /\ pl_pc = "returned"
    /\ pl_requests = 2
    /\ pl_count = 2
    /\ pl_last = <<[items |-> 1, next_none |-> TRUE]>>

(***************************************************************************)
(* Pagination: termination.                                                *)
(***************************************************************************)
\* C26: against a provider that holds finitely many items and serves empty
\* pages past the end, every pagination loop that was entered returns, after
\* finitely many page requests.
C26_EveryFetchReturns ==
    /\ (pg_pc = "loop") ~> (pg_pc = "returned")
    /\ (mx_pc = "loop") ~> (mx_pc = "returned")

\* a fetch of more than four full pages has returned
C26_Witness ==
    /\ pg_fn = "get_all_album_tracks"
    /\ pg_pc = "returned"
    /\ pg_total > 4 * SpotifyLimit
    /\ pg_requests = 5
    /\ Len(pg_all) = pg_total

(***************************************************************************)
(* get_artist_full_data: when MusicBrainz info is attached.                *)
(***************************************************************************)
\* the results that carry a score
Scored == {i \in 1..Len(mi_results) : mi_results[i] # <<>>}

\* the first of the results with the highest score, 0 without a scored result
TopResult ==
    IF Scored = {}
        THEN 0
        ELSE CHOOSE i \in Scored :
                 /\ \A j \in Scored : mi_results[j][1] <= mi_results[i][1]
                 /\ \A j \in Scored : mi_results[j][1] = mi_results[i][1] => i <= j

\* C27: musicbrainz_info is attached only when the search result with the
\* highest score, the first of them on ties, has a score above 70, and it is
\* that result's; with a best score of at most 70 or without results
\* musicbrainz_info stays null and get_artist_info is not requested.
C27_AttachedOnlyAbove70 ==
    /\ mi_info # <<>> =>
           /\ TopResult # 0
           /\ mi_results[TopResult][1] > 70
           /\ mi_info[1].id = TopResult
           /\ mi_requested = <<TopResult>>
    /\ (TopResult = 0 \/ mi_results[TopResult][1] <= 70) =>
           /\ mi_info = <<>>
           /\ mi_requested = <<>>
    /\ Len(mi_requested) <= 1

\* two results tie at the highest score; the info of the first was attached
C27_Witness ==
    /\ mi_pc = "returned"
    /\ mi_results = << <<71>>, <<100>>, <<100>> >>
    /\ mi_info = <<[id |-> 2]>>
    /\ mi_requested = <<2>>

(***************************************************************************)
(* Spotify token cache: a failed token exchange.                           *)
(***************************************************************************)
\* the last call ended in authenticate's SpotifyError
ExchangeFailed == au_outcome = "SpotifyError" /\ ~au_sent

\* C29: when the token exchange fails, the call raises SpotifyError, the
\* cached token is left as it was (absent or expired), the data request is
\* not sent, and the next authenticated request attempts an exchange again.
C29_FailedExchangeKeepsToken ==
    /\ ExchangeFailed =>
           /\ au_exchanges = 1
           /\ au_token = au_before
           /\ ~TokenValidAt(au_token, au_at)
    /\ (au_failed /\ au_outcome # "none") => au_exchanges = 1

\* the exchange for an expired token failed; the next request exchanged
\* again and went out
C29_Witness ==
    /\ au_failed
    /\ au_before # <<>>
    /\ au_exchanges = 1
    /\ au_sent
    /\ au_outcome = "returned"
    /\ au_token # au_before

(***************************************************************************)
(* cleanup_artist applied to its own output.                               *)
(***************************************************************************)
\* C30: cleanup_artist is idempotent: for a document it has produced it
\* returns a document equal to that input.
C30_Idempotent ==
    cu_runs = 2 => cu_cleaned = cu_artist_data

====
